---- MODULE Spec2Model ----
(***************************************************************************)
(* A model of the vuex store: the module collection, the install / reset   *)
(* engine that fills the routing tables, and the Store facade (commit,     *)
(* dispatch, subscribe, replaceState, registerModule, unregisterModule,    *)
(* hasModule, hotUpdate).                                                  *)
(*                                                                         *)
(* JavaScript runs one job at a time, so every synchronous call is one     *)
(* atomic step; the order of the calls made inside a step is recorded in   *)
(* the trace variable `log`.  The asynchronous part of an action (what     *)
(* happens after an `await`, and the reactions of the promise returned by  *)
(* dispatch) is a step of its own.                                         *)
(*                                                                         *)
(* Strings are JavaScript strings: a namespace is key \o "/" and a type    *)
(* is namespace \o localKey.  A path is a sequence of keys.                *)
(***************************************************************************)
EXTENDS Integers, Sequences, FiniteSets, TLC

VARIABLES
    store,       \* the Store object: its fields, see Store0
    log,         \* trace of the calls made by the last synchronous step
    thrown,      \* error thrown out of the last synchronous step, or None
    ret,         \* what the last facade call returned
    dispatches,  \* the promises returned by dispatch, with their handlers' runs
    handles,     \* the unsubscribe functions handed out so far
    last         \* the last facade call and its arguments

vars == <<store, log, thrown, ret, dispatches, handles, last>>

(***************************************************************************)
(* Bounds of the model.                                                    *)
(***************************************************************************)
\* state counters are kept modulo CountMod
CountMod == 3
\* subscribe / subscribeAction calls explored
MaxSubs == 3
\* dispatch calls explored
MaxDispatch == 2
\* registerModule is explored while every mutation type has fewer handlers
MaxInstalls == 3

None == "none"
Undefined == "undefined"
TypeError == "TypeError"

\* the build flag __DEV__ (development build: diagnostics and assertions on)
__DEV__ == TRUE

Payloads == {1, 2}

(***************************************************************************)
(* util.js                                                                 *)
(***************************************************************************)
Last(s) == s[Len(s)]
\* path.slice(0, -1)
Front(s) == IF Len(s) = 0 THEN s ELSE SubSeq(s, 1, Len(s) - 1)
\* path.concat(key)
concat(s, k) == Append(s, k)
IsPrefix(p, q) == Len(p) <= Len(q) /\ SubSeq(q, 1, Len(p)) = p

\* list.indexOf(x): the first index holding x, 0 when there is none
indexOf(s, x) ==
    IF \E i \in 1..Len(s) : s[i] = x
    THEN CHOOSE i \in 1..Len(s) : s[i] = x /\ \A j \in 1..(i - 1) : s[j] # x
    ELSE 0
\* list.splice(i, 1)
splice(s, i) == SubSeq(s, 1, i - 1) \o SubSeq(s, i + 1, Len(s))
\* list.unshift(x)
unshift(s, x) == <<x>> \o s
\* list.filter(f) for f given as the set of the elements it keeps
RECURSIVE filter(_, _)
filter(s, keep) ==
    IF s = <<>> THEN <<>>
    ELSE (IF Head(s) \in keep THEN <<Head(s)>> ELSE <<>>) \o filter(Tail(s), keep)

\* A copy of a state tree, like the tree held flat.  Each object of a copy
\* is either an object of its own, made by the copy, or the live object of
\* the state tree itself; what is seen in the latter is what the live
\* object holds at the time of the read.
Seen(copy, state) ==
    [p \in DOMAIN copy |->
        IF copy[p].owner = "live" /\ p \in DOMAIN state THEN state[p]
        ELSE [count |-> copy[p].count]]

\* a copy that makes a new root object and keeps the nested objects
deepCopy_shallow(obj) ==
    [p \in DOMAIN obj |->
        [owner |-> IF p = <<>> THEN "copy" ELSE "live", count |-> obj[p].count]]

\* deepCopy(obj): a new object for every object of the tree, with the
\* copies of its fields
deepCopy(obj) == [p \in DOMAIN obj |-> [owner |-> "copy", count |-> obj[p].count]]

\* obj[key] = value on an object held as a function
Put(f, k, v) == [x \in (DOMAIN f) \cup {k} |-> IF x = k THEN v ELSE f[x]]
\* Object.create(null)
EmptyObj == [x \in {} |-> 0]

(***************************************************************************)
(* Raw module configs (the objects given to the constructor, to            *)
(* registerModule and to hotUpdate).  mutations, actions and getters list  *)
(* their keys in the objects' key order; `has` names the sections the      *)
(* object defines at all; modules lists the nested configs.                *)
(***************************************************************************)
Raw(ns, count, muts, acts, gets, mods) ==
    [namespaced |-> ns, state |-> [count |-> count],
     mutations |-> muts, actions |-> acts, getters |-> gets,
     has |-> {"mutations", "actions", "getters"}, modules |-> mods]

Mut(key, fn) == [key |-> key, fn |-> fn]
Act(key, fn, root) == [key |-> key, fn |-> fn, root |-> root]
Get(key, fn) == [key |-> key, fn |-> fn]
Sub(key, raw) == [key |-> key, raw |-> raw]

(***************************************************************************)
(* module/module.js is not part of the sources at hand: the Module class   *)
(* is modelled from its description and from the calls made on it          *)
(* (runtime, state, namespaced, the children map with getChild, addChild,  *)
(* removeChild, hasChild, the forEach* iterators, update).                 *)
(* The module tree is held flat: a function from the paths of the          *)
(* registered modules to Module records; _children keeps the keys of the   *)
(* children in the insertion order of the JavaScript object.               *)
(***************************************************************************)
Module(rawModule, runtime) ==
    [runtime |-> runtime,
     state |-> rawModule.state,
     namespaced |-> rawModule.namespaced,
     mutations |-> rawModule.mutations,
     actions |-> rawModule.actions,
     getters |-> rawModule.getters,
     _children |-> <<>>]

Range(s) == {s[i] : i \in 1..Len(s)}

\* a reference to a module: the result of a lookup
ModRef(path) == [tag |-> "module", path |-> path]
UndefRef == [tag |-> Undefined, path |-> <<>>]
ThrowRef == [tag |-> TypeError, path |-> <<>>]

hasChild(M, p, key) == key \in Range(M[p]._children)

getChild(M, p, key) == IF hasChild(M, p, key) THEN ModRef(concat(p, key)) ELSE UndefRef

\* the modules of M outside the subtree rooted at path q
Outside(M, q) == {p \in DOMAIN M : ~IsPrefix(q, p)}

addChild(M, p, key, module) ==
    LET q == concat(p, key)
        keep == Outside(M, q) \cup {q}
    IN [x \in keep |->
          IF x = q THEN module
          ELSE IF x = p /\ ~hasChild(M, p, key)
               THEN [M[p] EXCEPT !._children = Append(@, key)]
               ELSE M[x]]

removeChild(M, p, key) ==
    LET q == concat(p, key)
    IN [x \in Outside(M, q) |->
          IF x = p
          THEN [M[p] EXCEPT !._children = splice(@, indexOf(@, key))]
          ELSE M[x]]

\* Module.update(rawModule): overlay the new definitions
Module_update(module, rawModule) ==
    [module EXCEPT
        !.namespaced = rawModule.namespaced,
        !.actions = IF "actions" \in rawModule.has THEN rawModule.actions ELSE @,
        !.mutations = IF "mutations" \in rawModule.has THEN rawModule.mutations ELSE @,
        !.getters = IF "getters" \in rawModule.has THEN rawModule.getters ELSE @]

(***************************************************************************)
(* module/module-collection.js                                             *)
(***************************************************************************)
\* get(path): path.reduce((module, key) => module.getChild(key), this.root)
RECURSIVE getFrom(_, _, _)
getFrom(M, cur, path) ==
    IF path = <<>> THEN cur
    ELSE IF cur.tag # "module" THEN ThrowRef
    ELSE getFrom(M, getChild(M, cur.path, Head(path)), Tail(path))

get(M, path) == getFrom(M, ModRef(<<>>), path)

\* a namespace that takes the key of every module on the path
RECURSIVE getNamespace_everyKey(_, _)
getNamespace_everyKey(M, path) ==
    IF path = <<>> THEN ""
    ELSE getNamespace_everyKey(M, Front(path)) \o Last(path) \o "/"

\* getNamespace(path); called only for paths of registered modules
RECURSIVE getNamespace(_, _)
getNamespace(M, path) ==
    IF path = <<>> THEN ""
    ELSE getNamespace(M, Front(path))
            \o (IF M[path].namespaced THEN Last(path) \o "/" ELSE "")

\* register(path, rawModule, runtime): the new tree, or the TypeError of
\* calling addChild on a parent that get() did not find
RECURSIVE register(_, _, _, _)
RECURSIVE registerEach(_, _, _, _)
\* a registration of the nested configs that leaves the runtime argument out,
\* so that they get the parameter's default
RECURSIVE registerEach_defaultRuntime(_, _, _, _)
registerEach_defaultRuntime(M, path, rawChildren, runtime) ==
    IF rawChildren = <<>> THEN [M |-> M, thrown |-> None]
    ELSE LET r == register(M, concat(path, Head(rawChildren).key),
                           Head(rawChildren).raw, TRUE)
         IN IF r.thrown # None THEN r
            ELSE registerEach_defaultRuntime(r.M, path, Tail(rawChildren), runtime)

register(M, path, rawModule, runtime) ==
    LET newModule == Module(rawModule, runtime)
        parent == get(M, Front(path))
    IN IF Len(path) = 0
       THEN registerEach([p \in {<<>>} |-> newModule], path, rawModule.modules, runtime)
       ELSE IF parent.tag # "module"
       THEN [M |-> M, thrown |-> TypeError]
       ELSE registerEach(addChild(M, parent.path, Last(path), newModule),
                         path, rawModule.modules, runtime)

registerEach(M, path, rawChildren, runtime) ==
    IF rawChildren = <<>> THEN [M |-> M, thrown |-> None]
    ELSE LET r == register(M, concat(path, Head(rawChildren).key),
                           Head(rawChildren).raw, runtime)
         IN IF r.thrown # None THEN r
            ELSE registerEach(r.M, path, Tail(rawChildren), runtime)

\* an unregister without the check of the runtime flag
unregister_anyModule(M, path) ==
    LET parent == get(M, Front(path))
        key == Last(path)
    IN IF parent.tag # "module" THEN [M |-> M, thrown |-> TypeError]
       ELSE IF ~hasChild(M, parent.path, key) THEN [M |-> M, thrown |-> None]
       ELSE [M |-> removeChild(M, parent.path, key), thrown |-> None]

\* unregister(path)
unregister(M, path) ==
    LET parent == get(M, Front(path))
        key == Last(path)
    IN IF parent.tag # "module" THEN [M |-> M, thrown |-> TypeError]
       ELSE IF ~hasChild(M, parent.path, key) THEN [M |-> M, thrown |-> None]
       ELSE IF ~M[concat(parent.path, key)].runtime THEN [M |-> M, thrown |-> None]
       ELSE [M |-> removeChild(M, parent.path, key), thrown |-> None]

\* isRegistered(path)
isRegistered(M, path) ==
    LET parent == get(M, Front(path))
    IN IF parent.tag = TypeError THEN [value |-> FALSE, thrown |-> TypeError]
       ELSE IF parent.tag = "module"
       THEN [value |-> hasChild(M, parent.path, Last(path)), thrown |-> None]
       ELSE [value |-> FALSE, thrown |-> None]

\* update(path, targetModule, newModule): the for..in loop over
\* newModule.modules returns at the first key without a counterpart
RECURSIVE update(_, _, _)
RECURSIVE updateEach(_, _, _)
update(M, path, newModule) ==
    updateEach([M EXCEPT ![path] = Module_update(@, newModule)], path, newModule.modules)

updateEach(M, path, rawChildren) ==
    IF rawChildren = <<>> THEN M
    ELSE IF ~hasChild(M, path, Head(rawChildren).key) THEN M
    ELSE updateEach(update(M, concat(path, Head(rawChildren).key), Head(rawChildren).raw),
                    path, Tail(rawChildren))

\* new ModuleCollection(rawRootModule)
ModuleCollection(rawRootModule) == register(EmptyObj, <<>>, rawRootModule, FALSE).M

(***************************************************************************)
(* The functions the configs name.  A raw mutation handler works on the    *)
(* count field of its module's state; a handler given an undefined state   *)
(* fails with a TypeError when it touches the field.                       *)
(***************************************************************************)
MutFn(fn, count, payload) ==
    CASE fn = "add" -> (count + payload) % CountMod
      [] fn = "dbl" -> (2 * count) % CountMod
      [] fn = "set" -> payload % CountMod
      [] OTHER -> count

\* what a raw mutation handler does besides, or instead of, working on the
\* count: nest calls this.commit("inc", payload) before it sets its own
\* count to the payload, throw throws
MutDo(fn) ==
    CASE fn = "nest" -> [op |-> "commit", arg |-> "inc", then |-> "set"]
      [] fn = "throw" -> [op |-> "throw", arg |-> "", then |-> ""]
      [] OTHER -> [op |-> "none", arg |-> "", then |-> fn]

\* what a mutation subscriber does when it is called, besides being called;
\* sCommit commits set with the payload of every mutation of type inc
SubDo(fn) ==
    CASE fn = "uSelf" -> [op |-> "unsubscribe", arg |-> "uSelf"]
      [] fn = "uS1" -> [op |-> "unsubscribe", arg |-> "s1"]
      [] fn = "addS2" -> [op |-> "subscribe", arg |-> "s2"]
      [] fn = "sThrow" -> [op |-> "throw", arg |-> ""]
      [] fn = "logger" -> [op |-> "logger", arg |-> ""]
      [] fn = "sCommit" -> [op |-> "commit", arg |-> "set", on |-> "inc"]
      [] OTHER -> [op |-> "none", arg |-> ""]

(***************************************************************************)
(* A synchronous computation works on a world w: the store, the trace of   *)
(* the calls made so far and the error being thrown, if any.  Once an      *)
(* error is thrown the remaining statements are skipped up to the next     *)
(* catch.  promises holds the promises of the dispatches made inside the   *)
(* computation, in the order of the calls.                                 *)
(***************************************************************************)
World(s, l, t) == [s |-> s, log |-> l, thrown |-> t, promises |-> <<>>]

Ev(ev, type, fn, path, payload, state) ==
    [ev |-> ev, type |-> type, fn |-> fn, path |-> path, payload |-> payload, state |-> state]

Trace(w, e) == [w EXCEPT !.log = Append(@, e)]
Throw(w, e) == [w EXCEPT !.thrown = e]

(***************************************************************************)
(* store-util.js                                                           *)
(***************************************************************************)
\* the state tree is held flat like the module tree: a function from the
\* paths at which the tree has a state object to that object's own fields
ObjRef(path) == [tag |-> "object", path |-> path]

\* getNestedState(state, path): path.reduce((state, key) => state[key], state)
RECURSIVE nestedFrom(_, _, _)
nestedFrom(state, cur, path) ==
    IF path = <<>> THEN cur
    ELSE IF cur.tag # "object" THEN ThrowRef
    ELSE nestedFrom(state,
                    IF concat(cur.path, Head(path)) \in DOMAIN state
                    THEN ObjRef(concat(cur.path, Head(path))) ELSE UndefRef,
                    Tail(path))

getNestedState(state, path) == nestedFrom(state, ObjRef(<<>>), path)

\* parentState[moduleName] = value: the object replaces what the key held
SetKey(state, q, obj) ==
    [x \in {p \in DOMAIN state : ~IsPrefix(q, p)} \cup {q} |->
        IF x = q THEN obj ELSE state[x]]

\* delete parentState[key]
DeleteKey(state, q) == [x \in {p \in DOMAIN state : ~IsPrefix(q, p)} |-> state[x]]

\* a genericSubscribe that ignores options.prepend
genericSubscribe_push(fn, subs, prepend) ==
    IF indexOf(subs, fn) = 0 THEN Append(subs, fn) ELSE subs

\* a genericSubscribe without the indexOf test
genericSubscribe_always(fn, subs, prepend) ==
    IF prepend THEN unshift(subs, fn) ELSE Append(subs, fn)

\* genericSubscribe(fn, subs, options): the new list
genericSubscribe(fn, subs, prepend) ==
    IF indexOf(subs, fn) = 0
    THEN (IF prepend THEN unshift(subs, fn) ELSE Append(subs, fn))
    ELSE subs

\* the function genericSubscribe returns
unsubscribe(fn, subs) ==
    IF indexOf(subs, fn) > 0 THEN splice(subs, indexOf(subs, fn)) ELSE subs

\* enableStrictMode(store): the callback of the deep, synchronous watcher of
\* the state tree, which asserts the committing flag.  What becomes of the
\* error of the assertion is up to the watcher's scheduler; the trace keeps
\* that it was raised.
enableStrictMode(w) ==
    IF __DEV__ /\ ~w.s._committing
    THEN Trace(w, Ev("assert", "", "do not mutate vuex store state outside mutation handlers",
                     <<>>, 0, EmptyObj))
    ELSE w

\* a write to the state tree: with strict mode on, the watcher runs at once
write(w, state) ==
    LET w1 == [w EXCEPT !.s.state = state]
    IN IF w.s.strict THEN enableStrictMode(w1) ELSE w1

\* Store._withCommit(fn), in two halves: the world fn starts in, and the
\* world after fn, given the world w1 that fn left; an error thrown by fn
\* skips the restoring assignment
\* a _withCommit that does not raise the flag
committing_off(w) == w

committing(w) == [w EXCEPT !.s._committing = TRUE]

_withCommit(w, w1) ==
    IF w1.thrown # None THEN w1
    ELSE [w1 EXCEPT !.s._committing = w.s._committing]

\* a routing table entry: the wrapped handler closes over the raw handler
\* and over the local context (namespace, path) of its module
Wrapped(fn, namespace, path) == [fn |-> fn, namespace |-> namespace, path |-> path]

TableAdd(table, type, h) ==
    Put(table, type, IF type \in DOMAIN table THEN Append(table[type], h) ELSE <<h>>)

registerMutation(w, type, handler, local) ==
    [w EXCEPT !.s._mutations = TableAdd(@, type, Wrapped(handler, local.namespace, local.path))]

registerAction(w, type, handler, local) ==
    [w EXCEPT !.s._actions = TableAdd(@, type, Wrapped(handler, local.namespace, local.path))]

\* a registerGetter whose later registration replaces the accessor
registerGetter_overwrite(w, type, rawGetter, local) ==
    [w EXCEPT !.s._wrappedGetters = Put(@, type, Wrapped(rawGetter, local.namespace, local.path))]

registerGetter(w, type, rawGetter, local) ==
    IF type \in DOMAIN w.s._wrappedGetters
    THEN Trace(w, Ev("console.error", type, "duplicate getter key", local.path, 0, EmptyObj))
    ELSE [w EXCEPT !.s._wrappedGetters =
              Put(@, type, Wrapped(rawGetter, local.namespace, local.path))]

makeLocalContext(namespace, path) == [namespace |-> namespace, path |-> path]

RECURSIVE forEachMutation(_, _, _, _)
forEachMutation(w, mutations, namespace, local) ==
    IF mutations = <<>> THEN w
    ELSE forEachMutation(
            registerMutation(w, namespace \o Head(mutations).key, Head(mutations).fn, local),
            Tail(mutations), namespace, local)

RECURSIVE forEachAction(_, _, _, _)
forEachAction(w, actions, namespace, local) ==
    IF actions = <<>> THEN w
    ELSE forEachAction(
            registerAction(w,
                IF Head(actions).root THEN Head(actions).key
                ELSE namespace \o Head(actions).key,
                Head(actions).fn, local),
            Tail(actions), namespace, local)

RECURSIVE forEachGetter(_, _, _, _)
forEachGetter(w, getters, namespace, local) ==
    IF getters = <<>> THEN w
    ELSE forEachGetter(
            registerGetter(w, namespace \o Head(getters).key, Head(getters).fn, local),
            Tail(getters), namespace, local)

\* the "set state" block of installModule
AttachState(w, path, module) ==
    LET parentState == getNestedState(w.s.state, Front(path))
        body(v) ==
            IF parentState.tag # "object" THEN Throw(v, TypeError)
            ELSE write(v, SetKey(v.s.state, concat(parentState.path, Last(path)), module.state))
    IN _withCommit(w, body(committing(w)))

\* installModule(store, rootState, path, module, hot); rootState is the
\* store's state at every call
RECURSIVE installModule(_, _, _)
RECURSIVE forEachChild(_, _, _, _)

\* an installModule that keeps the first module of a namespace in the map
installModule_firstNamespace(w, path, hot) ==
    IF w.thrown # None THEN w
    ELSE
    LET module == w.s._modules[path]
        isRoot == Len(path) = 0
        namespace == getNamespace(w.s._modules, path)
        w1 == IF module.namespaced /\ namespace \notin DOMAIN w.s._modulesNamespaceMap
              THEN [w EXCEPT !.s._modulesNamespaceMap = Put(@, namespace, path)]
              ELSE w
        w2 == IF ~isRoot /\ ~hot THEN AttachState(w1, path, module) ELSE w1
        local == makeLocalContext(namespace, path)
        w3 == forEachMutation(w2, module.mutations, namespace, local)
        w4 == forEachAction(w3, module.actions, namespace, local)
        w5 == forEachGetter(w4, module.getters, namespace, local)
    IN IF w2.thrown # None THEN w2
       ELSE forEachChild(w5, path, module._children, hot)

installModule(w, path, hot) ==
    IF w.thrown # None THEN w
    ELSE
    LET module == w.s._modules[path]
        isRoot == Len(path) = 0
        namespace == getNamespace(w.s._modules, path)
        w0 == IF module.namespaced /\ namespace \in DOMAIN w.s._modulesNamespaceMap /\ __DEV__
              THEN Trace(w, Ev("console.error", namespace, "duplicate namespace", path, 0,
                               EmptyObj))
              ELSE w
        w1 == IF module.namespaced
              THEN [w0 EXCEPT !.s._modulesNamespaceMap = Put(@, namespace, path)]
              ELSE w0
        w2 == IF ~isRoot /\ ~hot THEN AttachState(w1, path, module) ELSE w1
        local == makeLocalContext(namespace, path)
        w3 == forEachMutation(w2, module.mutations, namespace, local)
        w4 == forEachAction(w3, module.actions, namespace, local)
        w5 == forEachGetter(w4, module.getters, namespace, local)
    IN IF w2.thrown # None THEN w2
       ELSE forEachChild(w5, path, module._children, hot)

forEachChild(w, path, keys, hot) ==
    IF keys = <<>> \/ w.thrown # None THEN w
    ELSE forEachChild(installModule(w, concat(path, Head(keys)), hot), path, Tail(keys), hot)

\* a resetStoreState that keeps the cache of local getters
resetStoreState_keepCache(w, hot) ==
    IF w.thrown # None THEN w
    ELSE LET w1 == [w EXCEPT !.s.getters = w.s._wrappedGetters]
         IN IF hot THEN _withCommit(w1, write(committing(w1), w1.s.state)) ELSE w1

\* resetStoreState(store, state, hot): the getters object is rebuilt from
\* the wrapped getters and the cache of local getters is dropped; the hot
\* null-out writes to the previous reactive root only, which the watcher
\* of strict mode made for that root still observes
resetStoreState(w, hot) ==
    IF w.thrown # None THEN w
    ELSE LET w1 == [w EXCEPT !.s.getters = w.s._wrappedGetters,
                             !.s._makeLocalGettersCache = EmptyObj]
         IN IF hot THEN _withCommit(w1, write(committing(w1), w1.s.state)) ELSE w1

\* a resetStore that installs over the routing tables it has
resetStore_keepTables(w, hot) ==
    IF w.thrown # None THEN w
    ELSE resetStoreState(installModule(w, <<>>, TRUE), hot)

\* resetStore(store, hot)
resetStore(w, hot) ==
    IF w.thrown # None THEN w
    ELSE resetStoreState(
            installModule([w EXCEPT !.s._actions = EmptyObj,
                                    !.s._mutations = EmptyObj,
                                    !.s._wrappedGetters = EmptyObj,
                                    !.s._modulesNamespaceMap = EmptyObj],
                          <<>>, TRUE),
            hot)

(***************************************************************************)
(* store.js: the synchronous calls                                         *)
(***************************************************************************)
\* the Store object right after the field initialisers of the constructor
Store0(options, strict) ==
    [_committing |-> FALSE,
     _actions |-> EmptyObj,
     _actionSubscribers |-> <<>>,
     _mutations |-> EmptyObj,
     _wrappedGetters |-> EmptyObj,
     _modules |-> ModuleCollection(options),
     _modulesNamespaceMap |-> EmptyObj,
     _subscribers |-> <<>>,
     _makeLocalGettersCache |-> EmptyObj,
     getters |-> EmptyObj,
     strict |-> strict,
     state |-> [p \in {<<>>} |-> options.state],
     \* not a field of the Store: the variable prevState of the closure of
     \* the logger plugin installed on the store, if one is
     prevState |-> EmptyObj]

\* new Store(options)
Store(options, strict) ==
    resetStoreState(installModule(World(Store0(options, strict), <<>>, None), <<>>, FALSE),
                    FALSE).s

RECURSIVE commit(_, _, _)

\* wrappedMutationHandler(payload): handler.call(store, local.state, payload)
wrappedMutationHandler(w, type, h, payload) ==
    LET localState == getNestedState(w.s.state, h.path)
        w1 == Trace(w, Ev("handler", type, h.fn, h.path, payload, EmptyObj))
        do == MutDo(h.fn)
        w2 == IF do.op = "commit" THEN commit(w1, do.arg, payload) ELSE w1
    IN IF do.op = "throw" THEN Throw(w1, "MutationError")
       ELSE IF w2.thrown # None THEN w2
       ELSE IF localState.tag # "object" THEN Throw(w2, TypeError)
       ELSE write(w2, [w2.s.state EXCEPT ![h.path].count = MutFn(do.then, @, payload)])

\* a commit that runs the first handler of the entry only
commitIterator_firstOnly(w, type, entry, payload) ==
    IF entry = <<>> \/ w.thrown # None THEN w
    ELSE wrappedMutationHandler(w, type, Head(entry), payload)

\* entry.forEach(function commitIterator(handler) { handler(payload) })
RECURSIVE commitIterator(_, _, _, _)
commitIterator(w, type, entry, payload) ==
    IF entry = <<>> \/ w.thrown # None THEN w
    ELSE commitIterator(wrappedMutationHandler(w, type, Head(entry), payload),
                        type, Tail(entry), payload)

(***************************************************************************)
(* plugins/logger.js, for a logger made with                               *)
(* createLogger({ filter: mutation => mutation.payload !== 2 }) and the    *)
(* default transformers, which are the identity.                           *)
(***************************************************************************)
\* the plugin function applied to the store
createLogger(w) ==
    [w EXCEPT !.s.prevState = deepCopy(w.s.state),
              !.s._subscribers = genericSubscribe("logger", @, FALSE)]

\* the mutation subscriber of the plugin: (mutation, state) => { ... }
loggerSubscriber(w, type, payload) ==
    LET nextState == deepCopy(w.s.state)
        w1 == Trace(Trace(w, Ev("filter", type, "stateBefore", <<>>, payload,
                                Seen(w.s.prevState, w.s.state))),
                    Ev("filter", type, "stateAfter", <<>>, payload,
                       Seen(nextState, w.s.state)))
        w2 == Trace(Trace(Trace(w1,
                    Ev("logger.log", type, "prev state", <<>>, payload,
                       Seen(w.s.prevState, w.s.state))),
                    Ev("logger.log", type, "mutation", <<>>, payload, EmptyObj)),
                    Ev("logger.log", type, "next state", <<>>, payload,
                       Seen(nextState, w.s.state)))
    IN [(IF payload # 2 THEN w2 ELSE w1) EXCEPT !.s.prevState = nextState]

RECURSIVE notifySubscribers(_, _, _, _)
RECURSIVE callSubscriber(_, _, _, _)

\* sub(mutation, this.state) for one mutation subscriber
callSubscriber(w, sub, type, payload) ==
    LET w1 == Trace(w, Ev("subscriber", type, sub, <<>>, payload, w.s.state))
        do == SubDo(sub)
    IN CASE do.op = "unsubscribe" ->
                [w1 EXCEPT !.s._subscribers = unsubscribe(do.arg, @)]
         [] do.op = "subscribe" ->
                [w1 EXCEPT !.s._subscribers = genericSubscribe(do.arg, @, FALSE)]
         [] do.op = "commit" /\ type = do.on -> commit(w1, do.arg, payload)
         [] do.op = "throw" -> Throw(w1, "SubscriberError")
         [] do.op = "logger" -> loggerSubscriber(w1, type, payload)
         [] OTHER -> w1

\* the notification without the slice(): forEach over the live list visits
\* the indices below the length the list had at the start, skipping those
\* the list no longer has
RECURSIVE notifyLive(_, _, _, _, _)
notifyLive(w, i, n, type, payload) ==
    IF i > n \/ i > Len(w.s._subscribers) \/ w.thrown # None THEN w
    ELSE notifyLive(callSubscriber(w, w.s._subscribers[i], type, payload),
                    i + 1, n, type, payload)

notifySubscribers_live(w, subs, type, payload) == notifyLive(w, 1, Len(subs), type, payload)

\* this._subscribers.slice().forEach(sub => sub(mutation, this.state));
\* subs is the copy being iterated
notifySubscribers(w, subs, type, payload) ==
    IF subs = <<>> \/ w.thrown # None THEN w
    ELSE notifySubscribers(callSubscriber(w, Head(subs), type, payload),
                           Tail(subs), type, payload)

\* a commit that notifies the subscribers before it runs the handlers
commit_notifyFirst(w, type, payload) ==
    IF w.thrown # None THEN w
    ELSE IF type \notin DOMAIN w.s._mutations
    THEN Trace(w, Ev("console.error", type, "unknown mutation type", <<>>, payload, EmptyObj))
    ELSE LET entry == w.s._mutations[type]
             w1 == notifySubscribers(w, w.s._subscribers, type, payload)
         IN _withCommit(w1, commitIterator(committing(w1), type, entry, payload))

\* Store.commit(type, payload)
commit(w, type, payload) ==
    IF w.thrown # None THEN w
    ELSE IF type \notin DOMAIN w.s._mutations
    THEN Trace(w, Ev("console.error", type, "unknown mutation type", <<>>, payload, EmptyObj))
    ELSE LET entry == w.s._mutations[type]
             w1 == _withCommit(w, commitIterator(committing(w), type, entry, payload))
         IN notifySubscribers(w1, w1.s._subscribers, type, payload)

\* store.getters[key]: the computed of the wrapped getter, which calls the
\* raw getter with the local state of its module as it is at the read; the
\* value is written as the application of the raw getter to the count it
\* was given, fn(count), or fn(undefined) when the module has no state
wrappedGetter(w, key) ==
    IF key \notin DOMAIN w.s.getters THEN [w |-> w, value |-> Undefined]
    ELSE LET g == w.s.getters[key]
             localState == getNestedState(w.s.state, g.path)
             w1 == Trace(w, Ev("getter", key, g.fn, g.path, 0, EmptyObj))
         IN IF localState.tag = TypeError
            THEN [w |-> Throw(w1, TypeError), value |-> Undefined]
            ELSE [w |-> w1,
                  value |-> g.fn \o "(" \o
                            (IF localState.tag = "object"
                             THEN ToString(w.s.state[localState.path].count)
                             ELSE Undefined) \o ")"]

\* type.slice(0, splitPos) and type.slice(splitPos)
slice(type, from, to) ==
    IF from >= Len(type) \/ to <= from THEN ""
    ELSE SubSeq(type, from + 1, IF to > Len(type) THEN Len(type) ELSE to)

\* makeLocalGetters(store, namespace): the proxy object is held as the
\* function from its local keys to the global keys at which its accessors
\* read store.getters
makeLocalGetters(w, namespace) ==
    IF namespace \in DOMAIN w.s._makeLocalGettersCache
    THEN [w |-> w, value |-> w.s._makeLocalGettersCache[namespace]]
    ELSE LET splitPos == Len(namespace)
             types == {type \in DOMAIN w.s.getters : slice(type, 0, splitPos) = namespace}
             gettersProxy == [localType \in {slice(type, splitPos, Len(type)) : type \in types}
                                |-> namespace \o localType]
         IN [w |-> [w EXCEPT !.s._makeLocalGettersCache = Put(@, namespace, gettersProxy)],
             value |-> gettersProxy]

\* a replaceState that leaves the state in place
replaceState_keepsOld(w, state) ==
    _withCommit(w, write(committing(w), w.s.state))

\* a replaceState that keeps the old state objects the new state lacks
replaceState_merge(w, state) ==
    _withCommit(w, [committing(w) EXCEPT !.s.state =
                        [p \in DOMAIN state \cup DOMAIN w.s.state |->
                            IF p \in DOMAIN state THEN state[p] ELSE w.s.state[p]]])

\* Store.replaceState(state)
replaceState(w, state) ==
    _withCommit(w, write(committing(w), state))

\* a registerModule that attaches the state whatever options.preserveState is
registerModule_attachAlways(w, path, rawModule, preserveState) ==
    IF __DEV__ /\ Len(path) = 0 THEN Throw(w, "AssertionError")
    ELSE LET r == register(w.s._modules, path, rawModule, TRUE)
             w1 == [w EXCEPT !.s._modules = r.M]
         IN IF r.thrown # None THEN Throw(w, r.thrown)
            ELSE resetStoreState(installModule(w1, path, FALSE), FALSE)

\* Store.registerModule(path, rawModule, options)
registerModule(w, path, rawModule, preserveState) ==
    IF __DEV__ /\ Len(path) = 0 THEN Throw(w, "AssertionError")
    ELSE LET r == register(w.s._modules, path, rawModule, TRUE)
             w1 == [w EXCEPT !.s._modules = r.M]
         IN IF r.thrown # None THEN Throw(w, r.thrown)
            ELSE resetStoreState(installModule(w1, path, preserveState), FALSE)

\* Store.unregisterModule(path)
unregisterModule(w, path) ==
    LET r == unregister(w.s._modules, path)
        w1 == [w EXCEPT !.s._modules = r.M]
        parentState == getNestedState(w.s.state, Front(path))
        body(v) ==
            IF parentState.tag # "object" THEN Throw(v, TypeError)
            ELSE write(v, DeleteKey(v.s.state, concat(parentState.path, Last(path))))
    IN IF r.thrown # None THEN Throw(w, r.thrown)
       ELSE resetStore(_withCommit(w1, body(committing(w1))), FALSE)

\* Store.hasModule(path)
hasModule(w, path) == isRegistered(w.s._modules, path)

\* Store.hotUpdate(newOptions)
hotUpdate(w, newOptions) ==
    resetStore([w EXCEPT !.s._modules = update(@, <<>>, newOptions)], TRUE)

(***************************************************************************)
(* store.js: dispatch.  An action handler is a script: the statements it   *)
(* runs, with the points at which it awaits.  A script with an await is an *)
(* async function, whose errors reject its promise; a script without one   *)
(* is a plain function, whose return value registerAction wraps into a     *)
(* resolved promise and whose errors are thrown to the caller.             *)
(***************************************************************************)
St(op, type, arg) == [op |-> op, type |-> type, arg |-> arg]

ActScript(fn) ==
    CASE fn = "a1" -> <<St("commit", "m1", 1), St("return", "", 42)>>
      [] fn = "slow" -> <<St("await", "", 0), St("commit", "m1", 2), St("return", "", 7)>>
      [] fn = "fast" -> <<St("await", "", 0), St("return", "", 8)>>
      [] fn = "rej" -> <<St("await", "", 0), St("reject", "", 500)>>
      [] fn = "rej2" -> <<St("await", "", 0), St("reject", "", 503)>>
      [] fn = "rejNow" -> <<St("reject", "", 501)>>
      [] fn = "boom" -> <<St("throw", "", 502)>>
      [] fn = "first" -> <<St("commit", "m", 1), St("await", "", 0), St("commit", "m", 2),
                           St("return", "", 1)>>
      [] fn = "second" -> <<St("await", "", 0), St("commit", "m", 2),
                            St("commitRoot", "m", 1), St("return", "", 2)>>
      [] fn = "fwd" -> <<St("commit", "m", 1), St("commitRoot", "m", 2),
                         St("dispatch", "q", 1), St("dispatchRoot", "p", 1),
                         St("return", "", 3)>>
      [] fn = "plain" -> <<St("commit", "m", 2), St("dispatch", "p", 1), St("return", "", 4)>>
      [] fn = "late" -> <<St("await", "", 0), St("commit", "inc", 2), St("return", "", 5)>>
      [] fn = "lateRoot" -> <<St("await", "", 0), St("commitRoot", "inc", 2),
                              St("return", "", 6)>>
      [] OTHER -> <<>>

IsAsync(fn) == \E i \in 1..Len(ActScript(fn)) : ActScript(fn)[i].op = "await"

\* what an action subscriber function does when it is called
ActSubDo(fn) == IF fn \in {"bThrow", "aThrow", "eThrow"} THEN "throw" ELSE "none"

\* a promise's state
Pending == [status |-> "pending", array |-> FALSE, items |-> <<>>]
Resolved(items, array) == [status |-> "resolved", array |-> array, items |-> items]
Rejected(reason) == [status |-> "rejected", array |-> FALSE, items |-> <<reason>>]

\* a local commit that does not prefix the namespace
localCommit_noPrefix(w, local, type, payload, root) == commit(w, type, payload)

\* the commit of a module's local context (makeLocalContext)
localCommit(w, local, type, payload, root) ==
    IF local.namespace = "" THEN commit(w, type, payload)
    ELSE LET global == IF root THEN type ELSE local.namespace \o type
         IN IF ~root /\ __DEV__ /\ global \notin DOMAIN w.s._mutations
            THEN Trace(w, Ev("console.error", global, "unknown local mutation type",
                             local.path, payload, EmptyObj))
            ELSE commit(w, global, payload)

\* the dispatch of a module's local context (makeLocalContext); the promise
\* the global dispatch returns joins the promises in flight
RECURSIVE dispatch(_, _, _)
localDispatch(w, local, type, payload, root) ==
    LET global == IF root \/ local.namespace = "" THEN type ELSE local.namespace \o type
        r == dispatch(w, global, payload)
    IN IF local.namespace # "" /\ ~root /\ __DEV__ /\ global \notin DOMAIN w.s._actions
       THEN Trace(w, Ev("console.error", global, "unknown local action type",
                        local.path, payload, EmptyObj))
       ELSE [r.w EXCEPT !.promises = @ \o r.promise]

\* a run of a wrapped action handler: where it stands and its promise
Run(h, pc, promise) == [h |-> h, pc |-> pc, promise |-> promise]

\* the handler's statements from pc up to its next await or to its end
RECURSIVE runSegment(_, _, _)
runSegment(w, h, pc) ==
    LET script == ActScript(h.fn)
        step == script[pc]
        \* the error object an async handler threw, as a rejection reason
        error == 900
    IN IF w.thrown # None
       THEN (IF IsAsync(h.fn)
             THEN [w |-> Trace([w EXCEPT !.thrown = None],
                               Ev("settled", "rejected", h.fn, h.path, error, EmptyObj)),
                   run |-> Run(h, pc, Rejected(error))]
             ELSE [w |-> w, run |-> Run(h, pc, Pending)])
       ELSE IF pc > Len(script)
       THEN [w |-> Trace(w, Ev("settled", "resolved", h.fn, h.path, 0, EmptyObj)),
             run |-> Run(h, pc, Resolved(<<0>>, FALSE))]
       ELSE CASE step.op \in {"commit", "commitRoot"} ->
                    runSegment(localCommit(Trace(w, Ev(step.op, step.type, h.fn, h.path,
                                                       step.arg, EmptyObj)),
                                           h, step.type, step.arg, step.op = "commitRoot"),
                               h, pc + 1)
              [] step.op \in {"dispatch", "dispatchRoot"} ->
                    runSegment(localDispatch(Trace(w, Ev(step.op, step.type, h.fn, h.path,
                                                         step.arg, EmptyObj)),
                                             h, step.type, step.arg, step.op = "dispatchRoot"),
                               h, pc + 1)
              [] step.op = "await" -> [w |-> w, run |-> Run(h, pc + 1, Pending)]
              [] step.op = "return" ->
                    [w |-> Trace(w, Ev("settled", "resolved", h.fn, h.path, step.arg, EmptyObj)),
                     run |-> Run(h, pc, Resolved(<<step.arg>>, FALSE))]
              [] step.op = "reject" ->
                    [w |-> Trace(w, Ev("settled", "rejected", h.fn, h.path, step.arg, EmptyObj)),
                     run |-> Run(h, pc, Rejected(step.arg))]
              [] OTHER -> runSegment(Throw(w, "ActionError"), h, pc + 1)

\* wrappedActionHandler(payload): the call of the raw handler
wrappedActionHandler(w, type, h, payload) ==
    runSegment(Trace(w, Ev("action", type, h.fn, h.path, payload, EmptyObj)), h, 1)

\* entry.map(handler => handler(payload)), or entry[0](payload)
RECURSIVE mapHandlers(_, _, _, _, _)
mapHandlers(w, type, entry, payload, runs) ==
    IF entry = <<>> \/ w.thrown # None THEN [w |-> w, runs |-> runs]
    ELSE LET r == wrappedActionHandler(w, type, Head(entry), payload)
         IN mapHandlers(r.w, type, Tail(entry), payload, Append(runs, r.run))

\* the calls of the subscribers' functions of one phase; subs is the filtered
\* copy of the list, and an error ends the forEach
RECURSIVE forEachActionSubscriber(_, _, _, _, _, _)
forEachActionSubscriber(w, subs, phase, type, payload, reason) ==
    IF subs = <<>> \/ w.thrown # None THEN w
    ELSE LET fn == Head(subs)[phase]
             w1 == Trace(w, Ev(phase, type, fn, <<>>,
                               IF phase = "error" THEN reason ELSE payload, w.s.state))
         IN forEachActionSubscriber(
                IF ActSubDo(fn) = "throw" THEN Throw(w1, "SubscriberError") ELSE w1,
                Tail(subs), phase, type, payload, reason)

\* try { subscribers.filter(sub => sub[phase]).forEach(...) } catch (e) { warn }
WithPhase(subs, phase) == {subs[i] : i \in {j \in 1..Len(subs) : subs[j][phase] # ""}}

notifyActionSubscribers(w, phase, type, payload, reason) ==
    LET w1 == forEachActionSubscriber(
                  w, filter(w.s._actionSubscribers, WithPhase(w.s._actionSubscribers, phase)),
                  phase, type, payload, reason)
    IN IF w1.thrown # None
       THEN Trace([w1 EXCEPT !.thrown = None],
                  Ev("console.warn", type, "error in action subscribers", <<>>, 0, EmptyObj))
       ELSE w1

\* the first index whose run is rejected, 0 when there is none
FirstRejected(runs) ==
    IF \E i \in 1..Len(runs) : runs[i].promise.status = "rejected"
    THEN CHOOSE i \in 1..Len(runs) :
            /\ runs[i].promise.status = "rejected"
            /\ \A j \in 1..(i - 1) : runs[j].promise.status # "rejected"
    ELSE 0

\* the promise a dispatch returns, with what it waits for
Promise(type, payload, runs, hist) ==
    [type |-> type, payload |-> payload, runs |-> runs,
     firstRej |-> FirstRejected(runs), outcome |-> Pending, hist |-> hist]

\* a result that settles as soon as one of several handlers has resolved
ResultOf_firstResolved(d) ==
    IF Len(d.runs) = 1 THEN d.runs[1].promise
    ELSE IF d.firstRej # 0 THEN d.runs[d.firstRej].promise
    ELSE IF \E i \in 1..Len(d.runs) : d.runs[i].promise.status = "resolved"
    THEN Resolved([i \in 1..Len(d.runs) |->
                      IF d.runs[i].promise.status = "resolved"
                      THEN d.runs[i].promise.items[1] ELSE 0], TRUE)
    ELSE Pending

\* `result`: the promise of the only handler, or Promise.all of the handlers'
\* promises, which rejects with the reason of the promise that rejected first
\* and resolves with the values in the order of the handlers
ResultOf(d) ==
    IF Len(d.runs) = 1 THEN d.runs[1].promise
    ELSE IF d.firstRej # 0 THEN d.runs[d.firstRej].promise
    ELSE IF \A i \in 1..Len(d.runs) : d.runs[i].promise.status = "resolved"
    THEN Resolved([i \in 1..Len(d.runs) |-> d.runs[i].promise.items[1]], TRUE)
    ELSE Pending

\* a dispatch that notifies the before subscribers before it looks the type up
dispatch_notifyFirst(w, type, payload) ==
    LET w1 == notifyActionSubscribers(w, "before", type, payload, 0)
    IN IF type \notin DOMAIN w.s._actions
       THEN [w |-> Trace(w1, Ev("console.error", type, "unknown action type", <<>>, payload,
                                EmptyObj)),
             ret |-> Undefined, promise |-> <<>>]
       ELSE LET entry == w.s._actions[type]
                r == mapHandlers(w1, type, entry, payload, <<>>)
            IN IF r.w.thrown # None
               THEN [w |-> r.w, ret |-> Undefined, promise |-> <<>>]
               ELSE [w |-> r.w, ret |-> "promise",
                     promise |-> <<Promise(type, payload, r.runs, r.w.log)>>]

\* Store.dispatch(type, payload), up to the return: the world, what is
\* returned ("undefined", "promise", or nothing when an error is thrown) and
\* the promise returned
dispatch(w, type, payload) ==
    IF type \notin DOMAIN w.s._actions
    THEN [w |-> Trace(w, Ev("console.error", type, "unknown action type", <<>>, payload,
                            EmptyObj)),
          ret |-> Undefined, promise |-> <<>>]
    ELSE LET entry == w.s._actions[type]
             w1 == notifyActionSubscribers(w, "before", type, payload, 0)
             r == mapHandlers(w1, type, entry, payload, <<>>)
         IN IF r.w.thrown # None
            THEN [w |-> r.w, ret |-> Undefined, promise |-> <<>>]
            ELSE [w |-> r.w, ret |-> "promise",
                  promise |-> <<Promise(type, payload, r.runs, r.w.log)>>]

\* a reaction that resolves the returned promise without the value
settle_dropsValue(w, d) ==
    LET result == ResultOf(d)
        w1 == IF result.status = "resolved"
              THEN notifyActionSubscribers(w, "after", d.type, d.payload, 0)
              ELSE notifyActionSubscribers(w, "error", d.type, d.payload, result.items[1])
        w2 == Trace(w1, Ev(IF result.status = "resolved" THEN "resolve" ELSE "reject",
                           d.type, "", <<>>, 0, EmptyObj))
    IN [w |-> w2,
        promise |-> [d EXCEPT !.outcome = IF result.status = "resolved"
                                          THEN Resolved(<<0>>, FALSE) ELSE result,
                              !.hist = @ \o w2.log]]

\* the reaction of the returned promise to `result`: result.then(res => ...,
\* error => ...)
settle(w, d) ==
    LET result == ResultOf(d)
        w1 == IF result.status = "resolved"
              THEN notifyActionSubscribers(w, "after", d.type, d.payload, 0)
              ELSE notifyActionSubscribers(w, "error", d.type, d.payload, result.items[1])
        w2 == Trace(w1, Ev(IF result.status = "resolved" THEN "resolve" ELSE "reject",
                           d.type, "", <<>>, 0, EmptyObj))
    IN [w |-> w2, promise |-> [d EXCEPT !.outcome = result, !.hist = @ \o w2.log]]

\* the continuation of a suspended handler
resume(w, d, i) ==
    LET r == runSegment(Trace(w, Ev("resumed", d.type, d.runs[i].h.fn, d.runs[i].h.path,
                                    d.payload, EmptyObj)),
                        d.runs[i].h, d.runs[i].pc)
        runs == [d.runs EXCEPT ![i] = r.run]
    IN [w |-> r.w,
        promise |-> [d EXCEPT !.runs = runs,
                              !.firstRej = IF @ = 0 /\ r.run.promise.status = "rejected"
                                           THEN i ELSE @,
                              !.hist = @ \o r.w.log]]

(***************************************************************************)
(* The facade calls as steps.  A step starts from the store as it is,      *)
(* with an empty trace, and leaves the store the call produced.            *)
(***************************************************************************)
Call(op, type, path, arg) == [op |-> op, type |-> type, path |-> path, arg |-> arg]

Now == World(store, <<>>, None)

Becomes(w, r, call) ==
    /\ store' = w.s
    /\ log' = w.log
    /\ thrown' = w.thrown
    /\ ret' = r
    /\ last' = call

\* an unsubscribe function closes over the list and over what was
\* subscribed: a function (fn) or an action subscriber object (subs)
NoSubs == [oid |-> 0, before |-> "", after |-> "", error |-> ""]
Handle(list, fn, subs) == [list |-> list, fn |-> fn, subs |-> subs]

Commit(type, payload) ==
    /\ Becomes(commit(Now, type, payload), Undefined, Call("commit", type, <<>>, payload))
    /\ UNCHANGED <<dispatches, handles>>

Subscribe(fn, prepend) ==
    /\ Len(store._subscribers) < MaxSubs
    /\ Becomes([Now EXCEPT !.s._subscribers = genericSubscribe(fn, @, prepend)],
               "unsubscribe", Call("subscribe", fn, <<>>, IF prepend THEN 1 ELSE 0))
    /\ handles' = handles \cup {Handle("_subscribers", fn, NoSubs)}
    /\ UNCHANGED dispatches

Unsubscribe(h) ==
    /\ h \in handles
    /\ h.list = "_subscribers"
    /\ Becomes([Now EXCEPT !.s._subscribers = unsubscribe(h.fn, @)],
               Undefined, Call("unsubscribe", h.fn, <<>>, 0))
    /\ UNCHANGED <<dispatches, handles>>

\* createLogger(...)(store): the plugin is installed once
InstallLogger ==
    /\ "logger" \notin Range(store._subscribers)
    /\ Len(store._subscribers) < MaxSubs
    /\ Becomes(createLogger(Now), Undefined, Call("plugin", "logger", <<>>, 0))
    /\ UNCHANGED <<dispatches, handles>>

\* whether the module at path, before the call, was registered at runtime,
\* declared in the constructor options, or is absent
KindAt(path) ==
    IF path \notin DOMAIN store._modules THEN "absent"
    ELSE IF store._modules[path].runtime THEN "runtime" ELSE "static"

\* the paths of the modules a config declares when it is registered at path
RECURSIVE PathsOf(_, _)
PathsOf(path, raw) ==
    {path} \cup UNION {PathsOf(concat(path, raw.modules[i].key), raw.modules[i].raw) :
                         i \in 1..Len(raw.modules)}

\* options.preserveState is for a module whose state is in the tree already
RegisterModule(path, rawModule, preserveState) ==
    /\ preserveState => PathsOf(path, rawModule) \subseteq DOMAIN store.state
    /\ Becomes(registerModule(Now, path, rawModule, preserveState), Undefined,
               Call("registerModule", IF preserveState THEN "preserveState" ELSE "", path, 0))
    /\ UNCHANGED <<dispatches, handles>>

UnregisterModule(path) ==
    /\ Becomes(unregisterModule(Now, path), Undefined,
               Call("unregisterModule", KindAt(path), path, 0))
    /\ UNCHANGED <<dispatches, handles>>

HasModule(path) ==
    /\ LET r == hasModule(Now, path)
       IN Becomes(Throw(Now, r.thrown),
                  IF r.thrown # None THEN Undefined ELSE IF r.value THEN "true" ELSE "false",
                  Call("hasModule", "", path, 0))
    /\ UNCHANGED <<dispatches, handles>>

\* the state given to replaceState has an object wherever the tree has one
ReplaceState(count) ==
    /\ Becomes(replaceState(Now, [p \in DOMAIN store.state |-> [count |-> count]]),
               Undefined, Call("replaceState", "", <<>>, count))
    /\ UNCHANGED <<dispatches, handles>>

\* store.state...count = count, by code outside the store
ExternalWrite(path, count) ==
    /\ path \in DOMAIN store.state
    /\ Becomes(write(Now, [store.state EXCEPT ![path].count = count]),
               Undefined, Call("write", "", path, count))
    /\ UNCHANGED <<dispatches, handles>>

\* a read of store.getters[key]
Getter(key) ==
    /\ LET r == wrappedGetter(Now, key)
       IN Becomes(r.w, r.value, Call("getters", key, <<>>, 0))
    /\ UNCHANGED <<dispatches, handles>>

\* a read of the getters of the local context of a namespaced module
LocalGetters(namespace) ==
    /\ namespace \in DOMAIN store._modulesNamespaceMap
    /\ Becomes(makeLocalGetters(Now, namespace).w, "gettersProxy",
               Call("local.getters", namespace, <<>>, 0))
    /\ UNCHANGED <<dispatches, handles>>

\* replaceState with a state that has the root object only
ReplaceStateRoot(count) ==
    /\ Becomes(replaceState(Now, [p \in {<<>>} |-> [count |-> count]]),
               Undefined, Call("replaceState", "root", <<>>, count))
    /\ UNCHANGED <<dispatches, handles>>

\* replaceState with a state that has, besides the objects of the tree,
\* objects at paths where modules are registered later (a hydrated state)
ReplaceStateWith(paths, count) ==
    /\ ~(paths \subseteq DOMAIN store.state)
    /\ Becomes(replaceState(Now, [p \in DOMAIN store.state \cup paths |-> [count |-> count]]),
               Undefined, Call("replaceState", "hydrate", <<>>, count))
    /\ UNCHANGED <<dispatches, handles>>

HotUpdate(newOptions) ==
    /\ Becomes(hotUpdate(Now, newOptions), Undefined, Call("hotUpdate", "", <<>>, 0))
    /\ UNCHANGED <<dispatches, handles>>

\* subscribeAction(fn, options): a function becomes a new object
\* { before: fn }, an object is taken as it is.  oid tells the objects made
\* for functions apart; the objects the caller gives have oid 0.
ActionSub(oid, before, after, error) ==
    [oid |-> oid, before |-> before, after |-> after, error |-> error]

SubscribeAction(fn, prepend) ==
    /\ Len(store._actionSubscribers) < MaxSubs
    /\ LET subs == IF fn.oid = 0 /\ fn.after = "" /\ fn.error = ""
                   THEN ActionSub(Cardinality(handles) + 1, fn.before, "", "")
                   ELSE fn
       IN /\ Becomes([Now EXCEPT !.s._actionSubscribers = genericSubscribe(subs, @, prepend)],
                     "unsubscribe",
                     Call("subscribeAction", fn.before, <<>>, IF prepend THEN 1 ELSE 0))
          /\ handles' = handles \cup {Handle("_actionSubscribers", "", subs)}
    /\ UNCHANGED dispatches

Dispatch(type, payload) ==
    /\ Len(dispatches) < MaxDispatch
    /\ LET r == dispatch(Now, type, payload)
       IN /\ Becomes(r.w, r.ret, Call("dispatch", type, <<>>, payload))
          /\ dispatches' = dispatches \o r.w.promises \o r.promise
    /\ UNCHANGED handles

Resume(d, i) ==
    /\ dispatches[d].runs[i].promise.status = "pending"
    /\ LET r == resume(Now, dispatches[d], i)
       IN /\ Becomes(r.w, Undefined, Call("resume", dispatches[d].type, <<>>, d))
          /\ dispatches' = [dispatches EXCEPT ![d] = r.promise] \o r.w.promises
    /\ UNCHANGED handles

Settle(d) ==
    /\ dispatches[d].outcome.status = "pending"
    /\ ResultOf(dispatches[d]).status # "pending"
    /\ LET r == settle(Now, dispatches[d])
       IN /\ Becomes(r.w, Undefined, Call("settle", dispatches[d].type, <<>>, d))
          /\ dispatches' = [dispatches EXCEPT ![d] = r.promise]
    /\ UNCHANGED handles

(***************************************************************************)
(* Spec: one store with two modules, its commits and its mutation          *)
(* subscribers.  The type "inc" is shared by the root module and by the    *)
(* module b, which is not namespaced, so "b/inc" is no type of the store.  *)
(***************************************************************************)
OptionsCommit ==
    Raw(FALSE, 0, <<Mut("inc", "add")>>, <<>>, <<>>,
        <<Sub("b", Raw(FALSE, 1, <<Mut("inc", "dbl"), Mut("set", "set")>>, <<>>, <<>>, <<>>))>>)

CommitTypes == {"inc", "set", "b/inc"}
SubFns == {"s1", "uSelf", "uS1", "addS2"}

Init ==
    /\ store = Store(OptionsCommit, FALSE)
    /\ log = <<>>
    /\ thrown = None
    /\ ret = Undefined
    /\ dispatches = <<>>
    /\ handles = {}
    /\ last = Call("new Store", "", <<>>, 0)

Next ==
    \/ \E type \in CommitTypes, payload \in Payloads : Commit(type, payload)
    \/ \E fn \in SubFns, prepend \in BOOLEAN : Subscribe(fn, prepend)
    \/ \E h \in handles : Unsubscribe(h)

Spec == Init /\ [][Next]_vars

(***************************************************************************)
(* Claims                                                                  *)
(***************************************************************************)
\* the events of one kind in a trace
OfKind(l, kinds) == {i \in 1..Len(l) : l[i].ev \in kinds}

\* C1: a commit of a type of the mutation table calls every handler
\* registered under the type exactly once, in registration order, and all of
\* them before the first mutation subscriber is called.
C1_CommitRunsHandlersInOrderThenSubscribers ==
    (last.op = "commit" /\ last.type \in DOMAIN store._mutations /\ thrown = None) =>
        LET entry == store._mutations[last.type]
            n == Len(entry)
        IN /\ Len(log) >= n
           /\ \A i \in 1..n :
                /\ log[i].ev = "handler"
                /\ log[i].type = last.type
                /\ log[i].fn = entry[i].fn
                /\ log[i].path = entry[i].path
                /\ log[i].payload = last.arg
           /\ \A i \in (n + 1)..Len(log) : log[i].ev = "subscriber"

C1_Witness ==
    /\ last.op = "commit"
    /\ last.type = "inc"
    /\ Len(store._mutations["inc"]) = 2
    /\ thrown = None
    /\ OfKind(log, {"subscriber"}) # {}

\* the subsequence of a trace made of its events of some kinds
RECURSIVE Only(_, _)
Only(l, kinds) ==
    IF l = <<>> THEN <<>>
    ELSE (IF Head(l).ev \in kinds THEN <<Head(l)>> ELSE <<>>) \o Only(Tail(l), kinds)

\* C7: the notification of a commit calls every subscriber that was in the
\* list when the notification started exactly once, in list order, with the
\* mutation and the current state, whatever the subscribers unsubscribe
\* meanwhile; a subscriber added meanwhile is not called for this commit.
C7_NotificationCallsTheSnapshot ==
    [][(last'.op = "commit" /\ last'.type \in DOMAIN store._mutations /\ thrown' = None) =>
         LET called == Only(log', {"subscriber"})
         IN /\ Len(called) = Len(store._subscribers)
            /\ \A i \in 1..Len(called) :
                 /\ called[i].fn = store._subscribers[i]
                 /\ called[i].type = last'.type
                 /\ called[i].payload = last'.arg
                 /\ called[i].state = store'.state]_vars

\* uS1 removed s1 before the turn of s1, addS2 added s2 during the round
C7_Witness ==
    /\ last.op = "commit"
    /\ last.type \in DOMAIN store._mutations
    /\ thrown = None
    /\ \E l \in {Only(log, {"subscriber"})} :
         /\ Len(l) = 3
         /\ l[1].fn = "uS1" /\ l[2].fn = "s1" /\ l[3].fn = "addS2"
    /\ store._subscribers = <<"uS1", "addS2", "s2">>

(***************************************************************************)
(* SpecModules: a store whose module tree changes.  The constructor        *)
(* options declare the namespaced module a and, inside it, the module c,   *)
(* which is not namespaced; modules are registered at runtime at r and     *)
(* below the missing module x.                                             *)
(***************************************************************************)
OptionsModules ==
    Raw(FALSE, 0, <<Mut("inc", "set")>>, <<Act("go", "act0", FALSE)>>, <<Get("cnt", "g0")>>,
        <<Sub("a", Raw(TRUE, 0, <<Mut("inc", "set")>>,
                       <<Act("go", "act1", FALSE), Act("top", "act2", TRUE)>>,
                       <<Get("cnt", "g1")>>,
                       <<Sub("c", Raw(FALSE, 0, <<Mut("inc", "set")>>, <<>>,
                                      <<Get("sum", "g2")>>, <<>>))>>))>>)

\* configs registered at runtime: a plain one, whose getter key is the
\* root's, with a namespaced child that has a root action, and a namespaced one
RuntimeConfigs ==
    {Raw(FALSE, 0, <<Mut("inc", "set")>>, <<Act("go", "act3", FALSE)>>, <<Get("cnt", "g3")>>,
         <<Sub("d", Raw(TRUE, 0, <<Mut("inc", "set")>>, <<Act("top", "act6", TRUE)>>,
                        <<>>, <<>>))>>),
     Raw(TRUE, 0, <<Mut("inc", "set")>>, <<Act("go", "act4", FALSE)>>, <<Get("cnt", "g4")>>,
         <<>>)}

RegisterPaths == {<<"r">>, <<"x", "y">>}
ModulePaths == RegisterPaths \cup {<<"a">>, <<"a", "c">>, <<"r", "d">>}

\* hot updates: new definitions for the root and a with c now namespaced,
\* and one that names the unknown module z before a
HotOptions ==
    {Raw(FALSE, 0, <<Mut("inc", "add")>>, <<Act("go", "act5", FALSE)>>, <<Get("cnt", "g5")>>,
         <<Sub("a", Raw(TRUE, 0, <<Mut("inc", "add")>>, <<>>, <<Get("cnt", "g6")>>,
                        <<Sub("c", Raw(TRUE, 0, <<Mut("inc", "add")>>, <<>>, <<>>, <<>>))>>))>>),
     Raw(FALSE, 0, <<Mut("inc", "dbl")>>, <<>>, <<>>,
         <<Sub("z", Raw(FALSE, 0, <<>>, <<>>, <<>>, <<>>)),
           Sub("a", Raw(FALSE, 0, <<Mut("inc", "dbl")>>, <<>>, <<>>, <<>>))>>)}

InitModules ==
    /\ store = Store(OptionsModules, FALSE)
    /\ log = <<>>
    /\ thrown = None
    /\ ret = Undefined
    /\ dispatches = <<>>
    /\ handles = {}
    /\ last = Call("new Store", "", <<>>, 0)

NextModules ==
    \/ \E path \in RegisterPaths, raw \in RuntimeConfigs :
          KindAt(path) = "absent" /\ RegisterModule(path, raw, FALSE)
    \/ \E path \in ModulePaths : UnregisterModule(path)
    \/ \E path \in ModulePaths \cup {<<"x", "y", "z">>} : HasModule(path)
    \/ \E count \in {1} : ReplaceState(count)
    \/ \E newOptions \in HotOptions : HotUpdate(newOptions)
    \/ \E type \in DOMAIN store._mutations \cup {"nope"} : Commit(type, 1)

SpecModules == InitModules /\ [][NextModules]_vars

\* C2: the state tree has a state object exactly at the paths of the
\* registered modules.
C2_StateTreeMirrorsModuleTree == DOMAIN store.state = DOMAIN store._modules

\* C3: right after registerModule(P, cfg), hasModule(P) returns true; right
\* after unregisterModule(P) of a module registered at runtime it returns
\* false; right after unregisterModule(P) of a module of the constructor
\* options it returns true.
C3_HasModuleAfterRegisterAndUnregister ==
    /\ (last.op = "registerModule" /\ thrown = None) =>
            (hasModule(Now, last.path).thrown = None /\ hasModule(Now, last.path).value)
    /\ (last.op = "unregisterModule" /\ last.type = "runtime") =>
            (hasModule(Now, last.path).thrown = None /\ ~hasModule(Now, last.path).value)
    /\ (last.op = "unregisterModule" /\ last.type = "static") =>
            (hasModule(Now, last.path).thrown = None /\ hasModule(Now, last.path).value)

C3_Witness ==
    /\ last.op = "unregisterModule"
    /\ last.type = "static"
    /\ last.path = <<"a", "c">>
    /\ <<"r", "d">> \in DOMAIN store._modules

\* C4: unregisterModule of a module of the constructor options changes
\* neither the module tree, nor the state tree, nor the types of the routing
\* tables.
C4_UnregisterStaticIsNoOp ==
    [][(last'.op = "unregisterModule" /\ last'.type = "static") =>
         /\ store'._modules = store._modules
         /\ store'.state = store.state
         /\ DOMAIN store'._mutations = DOMAIN store._mutations
         /\ DOMAIN store'._actions = DOMAIN store._actions
         /\ DOMAIN store'.getters = DOMAIN store.getters]_vars

\* key \o "/" for the modules on the path, from its i-th one on, that are
\* flagged namespaced
RECURSIVE PrefixByFlags(_, _, _)
PrefixByFlags(M, P, i) ==
    IF i > Len(P) THEN ""
    ELSE (IF M[SubSeq(P, 1, i)].namespaced THEN P[i] \o "/" ELSE "")
            \o PrefixByFlags(M, P, i + 1)

\* the keys of the module at P are in the routing tables under its prefix
EnteredUnderPrefix(P) ==
    LET module == store._modules[P]
        ns == PrefixByFlags(store._modules, P, 1)
    IN /\ \A i \in 1..Len(module.mutations) :
            LET type == ns \o module.mutations[i].key
            IN /\ type \in DOMAIN store._mutations
               /\ Wrapped(module.mutations[i].fn, ns, P) \in Range(store._mutations[type])
       /\ \A i \in 1..Len(module.actions) :
            LET type == IF module.actions[i].root THEN module.actions[i].key
                        ELSE ns \o module.actions[i].key
            IN /\ type \in DOMAIN store._actions
               /\ Wrapped(module.actions[i].fn, ns, P) \in Range(store._actions[type])
       /\ \A i \in 1..Len(module.getters) :
            /\ ns \o module.getters[i].key \in DOMAIN store._wrappedGetters
            /\ ns \o module.getters[i].key \in DOMAIN store.getters

\* C5: once the constructor, registerModule, unregisterModule or hotUpdate
\* has returned, every module's mutation, action and getter keys are in the
\* routing tables under the prefix made of key \o "/" for exactly the
\* namespaced modules on its path, and an action declared root: true is
\* under its bare key.
C5_KeysEnteredUnderNamespace ==
    (last.op \in {"new Store", "registerModule", "unregisterModule", "hotUpdate"}
        /\ thrown = None) =>
        \A P \in DOMAIN store._modules : EnteredUnderPrefix(P)

\* d is namespaced below r, which is not; c is below the namespaced a,
\* first plain and, since a hot update, namespaced
C5_Witness ==
    /\ last.op = "registerModule"
    /\ thrown = None
    /\ <<"r", "d">> \in DOMAIN store._modules
    /\ "d/inc" \in DOMAIN store._mutations
    /\ "a/c/inc" \in DOMAIN store._mutations
    /\ "top" \in DOMAIN store._actions

(***************************************************************************)
(* SpecDispatch: a store with actions.  a1 commits m1 and returns 42; the  *)
(* type "shared" has the handlers slow (root), which commits m1 after an   *)
(* await, and fast (module b, not namespaced), which finish in either      *)
(* order; "bad" rejects after an await.                                    *)
(***************************************************************************)
OptionsDispatch ==
    Raw(FALSE, 0, <<Mut("m1", "set")>>,
        <<Act("a1", "a1", FALSE), Act("shared", "slow", FALSE), Act("bad", "rej", FALSE)>>,
        <<>>,
        <<Sub("b", Raw(FALSE, 0, <<>>, <<Act("shared", "fast", FALSE)>>, <<>>, <<>>))>>)

DispatchTypes == {"a1", "shared", "bad", "nope"}

\* an object with the three phases, and one without an error function whose
\* before function throws
ActionSubscribers == {ActionSub(0, "b1", "a1", "e1"), ActionSub(0, "bThrow", "a2", "")}

InitDispatch ==
    /\ store = Store(OptionsDispatch, FALSE)
    /\ log = <<>>
    /\ thrown = None
    /\ ret = Undefined
    /\ dispatches = <<>>
    /\ handles = {}
    /\ last = Call("new Store", "", <<>>, 0)

NextDispatch ==
    \/ \E type \in DispatchTypes : Dispatch(type, 1)
    \/ \E d \in 1..Len(dispatches) : \E i \in 1..Len(dispatches[d].runs) : Resume(d, i)
    \/ \E d \in 1..Len(dispatches) : Settle(d)
    \/ \E fn \in ActionSubscribers : SubscribeAction(fn, FALSE)

SpecDispatch == InitDispatch /\ [][NextDispatch]_vars

\* the values a handler's script can return
Returns(fn) == {ActScript(fn)[i].arg : i \in {j \in 1..Len(ActScript(fn)) :
                                                ActScript(fn)[j].op = "return"}}

\* the commit statements of a handler's script
Commits(fn) == {i \in 1..Len(ActScript(fn)) : ActScript(fn)[i].op = "commit"}

\* C8: when the type of a dispatch has exactly one handler and the promise of
\* the dispatch has resolved, it has resolved with the value the handler
\* returned, and every commit the handler made has run its mutation handler
\* before the promise resolved.
C8_SingleHandlerValueAndCommits ==
    \A d \in 1..Len(dispatches) :
        LET p == dispatches[d]
            h == p.hist
        IN (Len(store._actions[p.type]) = 1 /\ p.outcome.status = "resolved") =>
              /\ p.runs[1].promise.status = "resolved"
              /\ p.outcome = p.runs[1].promise
              /\ p.outcome.items[1] \in Returns(p.runs[1].h.fn)
              /\ Cardinality(OfKind(h, {"commit"})) = Cardinality(Commits(p.runs[1].h.fn))
              /\ \A i \in OfKind(h, {"commit"}) :
                    \E j \in OfKind(h, {"handler"}) : \E k \in OfKind(h, {"resolve"}) :
                        /\ i < j /\ j < k
                        /\ h[j].type = h[i].type
                        /\ h[j].payload = h[i].payload

\* a1 has resolved with 42 after its commit of m1, next to another dispatch
C8_Witness ==
    \E d \in 1..Len(dispatches) :
        /\ dispatches[d].type = "a1"
        /\ dispatches[d].outcome = Resolved(<<42>>, FALSE)
        /\ OfKind(dispatches[d].hist, {"commit"}) # {}
        /\ Len(dispatches) = 2

\* C9: a dispatch of a type with several handlers calls every handler of the
\* type, in registration order, in the dispatch call itself; its promise
\* resolves only when every handler's promise has resolved, and with the
\* handlers' values in registration order.
C9_AllHandlersAggregatedInOrder ==
    \A d \in 1..Len(dispatches) :
        LET p == dispatches[d]
            h == p.hist
            entry == store._actions[p.type]
            started == Only(h, {"action"})
        IN Len(entry) > 1 =>
              /\ Len(p.runs) = Len(entry)
              /\ Len(started) = Len(entry)
              /\ \A i \in 1..Len(entry) :
                    /\ started[i].fn = entry[i].fn
                    /\ started[i].path = entry[i].path
                    /\ p.runs[i].h = entry[i]
              /\ p.outcome.status = "resolved" =>
                    /\ p.outcome.array
                    /\ Len(p.outcome.items) = Len(entry)
                    /\ \A i \in 1..Len(entry) :
                          /\ p.runs[i].promise.status = "resolved"
                          /\ p.outcome.items[i] = p.runs[i].promise.items[1]
                          /\ p.outcome.items[i] \in Returns(entry[i].fn)
                          /\ \E j \in OfKind(h, {"settled"}) : \E k \in OfKind(h, {"resolve"}) :
                                j < k /\ h[j].fn = entry[i].fn /\ h[j].type = "resolved"

\* "shared" has resolved with the values of slow and fast in that order, and
\* fast finished first
C9_Witness ==
    \E d \in 1..Len(dispatches) :
        LET h == dispatches[d].hist
        IN /\ dispatches[d].type = "shared"
           /\ dispatches[d].outcome = Resolved(<<7, 8>>, TRUE)
           /\ \E j, k \in OfKind(h, {"settled"}) :
                 j < k /\ h[j].fn = "fast" /\ h[k].fn = "slow"

\* C10: a dispatch of a registered type calls the before function of every
\* action subscriber that has one, and all of them before the first handler;
\* when the handlers' result resolves, the after function of every subscriber
\* that has one is called and then the promise of the dispatch resolves; when
\* it rejects, the error function of every subscriber that has one is called
\* with the reason and then the promise rejects; no dispatch has both after
\* and error functions called.
C10_SubscriberPhasesAroundHandlers ==
    [][/\ (last'.op = "dispatch" /\ last'.type \in DOMAIN store._actions /\ thrown' = None) =>
            LET subs == filter(store._actionSubscribers,
                               WithPhase(store._actionSubscribers, "before"))
                l == Only(log', {"before", "action"})
            IN /\ Len(l) = Len(subs) + Len(store._actions[last'.type])
               /\ \A i \in 1..Len(l) :
                     IF i <= Len(subs)
                     THEN l[i].ev = "before" /\ l[i].fn = subs[i].before
                     ELSE l[i].ev = "action"
       /\ last'.op = "settle" =>
            LET d == last'.arg
                result == ResultOf(dispatches[d])
                phase == IF result.status = "resolved" THEN "after" ELSE "error"
                subs == filter(store._actionSubscribers,
                               WithPhase(store._actionSubscribers, phase))
            IN /\ Len(log') = Len(subs) + 1
               /\ \A i \in 1..Len(subs) :
                     /\ log'[i].ev = phase
                     /\ log'[i].fn = subs[i][phase]
                     /\ phase = "error" => log'[i].payload = result.items[1]
               /\ Last(log').ev = (IF phase = "after" THEN "resolve" ELSE "reject")
               /\ dispatches'[d].outcome = result
       /\ \A d \in 1..Len(dispatches') :
            \/ OfKind(dispatches'[d].hist, {"after"}) = {}
            \/ OfKind(dispatches'[d].hist, {"error"}) = {}]_vars

(***************************************************************************)
(* SpecUnknown: the store of SpecDispatch with mutation subscribers and    *)
(* action subscribers, committed to and dispatched to with types the       *)
(* tables have and with a type they do not have.                           *)
(***************************************************************************)
UnknownTypes == {"m1", "a1", "nope"}

NextUnknown ==
    \/ Subscribe("s1", FALSE)
    \/ \E fn \in ActionSubscribers : SubscribeAction(fn, FALSE)
    \/ \E type \in UnknownTypes : Commit(type, 1)
    \/ \E type \in UnknownTypes : Dispatch(type, 2)
    \/ \E d \in 1..Len(dispatches) : Settle(d)

SpecUnknown == InitDispatch /\ [][NextUnknown]_vars

\* C6: a commit of a type the mutation table has no entry for throws nothing,
\* calls no handler and no mutation subscriber and leaves the state tree as it
\* was; a dispatch of a type the action table has no entry for throws nothing,
\* returns undefined, calls no handler and no action subscriber of any phase,
\* and creates no promise whose settling could call one.
C6_UnknownTypeIsNoOp ==
    [][/\ (last'.op = "commit" /\ last'.type \notin DOMAIN store._mutations) =>
            /\ thrown' = None
            /\ OfKind(log', {"handler", "subscriber"}) = {}
            /\ store'.state = store.state
       /\ (last'.op = "dispatch" /\ last'.type \notin DOMAIN store._actions) =>
            /\ thrown' = None
            /\ ret' = Undefined
            /\ OfKind(log', {"action", "before", "after", "error"}) = {}
            /\ store'.state = store.state
            /\ dispatches' = dispatches]_vars

\* an unknown action type dispatched to a store that has subscribers of both
\* kinds and a state that commits have changed
C6_Witness ==
    /\ last.op = "dispatch"
    /\ last.type = "nope"
    /\ log # <<>>
    /\ store._subscribers # <<>>
    /\ Len(store._actionSubscribers) = 2
    /\ store.state[<<>>].count = 1

(***************************************************************************)
(* SpecReject: a store whose actions reject.  "bad" has the handler rej;   *)
(* "both" has the handlers rej (root) and rej2 (module b, not namespaced), *)
(* which reject in either order; "boom" has a handler that is a plain      *)
(* function and throws.  One action subscriber has an error function that  *)
(* throws.                                                                 *)
(***************************************************************************)
OptionsReject ==
    Raw(FALSE, 0, <<>>,
        <<Act("bad", "rej", FALSE), Act("both", "rej", FALSE), Act("boom", "boom", FALSE)>>,
        <<>>,
        <<Sub("b", Raw(FALSE, 0, <<>>, <<Act("both", "rej2", FALSE)>>, <<>>, <<>>))>>)

RejectTypes == {"bad", "both", "boom"}

ErrorSubscribers == {ActionSub(0, "", "", "eThrow"), ActionSub(0, "b1", "a1", "e1")}

InitReject ==
    /\ store = Store(OptionsReject, FALSE)
    /\ log = <<>>
    /\ thrown = None
    /\ ret = Undefined
    /\ dispatches = <<>>
    /\ handles = {}
    /\ last = Call("new Store", "", <<>>, 0)

NextReject ==
    \/ \E type \in RejectTypes : Dispatch(type, 1)
    \/ \E d \in 1..Len(dispatches) : \E i \in 1..Len(dispatches[d].runs) : Resume(d, i)
    \/ \E d \in 1..Len(dispatches) : Settle(d)
    \/ \E fn \in ErrorSubscribers : SubscribeAction(fn, FALSE)

SpecReject == InitReject /\ [][NextReject]_vars

\* the reasons a handler's script can reject with
Rejects(fn) == {ActScript(fn)[i].arg : i \in {j \in 1..Len(ActScript(fn)) :
                                                ActScript(fn)[j].op = "reject"}}

\* the handlers of a dispatch in the order in which they rejected
RejectedInOrder(h) == Only(h, {"settled"})

\* C11: when the handlers' result rejects, the promise of the dispatch rejects
\* with the reason the handler rejected with, the first handler to reject
\* when the type has several, and the error function of every action
\* subscriber that has one is called with that reason.
C11_RejectionReachesPromiseAndErrorSubscribers ==
    [][(last'.op = "settle" /\ ResultOf(dispatches[last'.arg]).status = "rejected") =>
          LET d == last'.arg
              p == dispatches[d]
              first == RejectedInOrder(p.hist)[1]
              subs == filter(store._actionSubscribers,
                             WithPhase(store._actionSubscribers, "error"))
              called == Only(log', {"error"})
          IN /\ first.type = "rejected"
             /\ first.payload \in Rejects(first.fn)
             /\ dispatches'[d].outcome = Rejected(first.payload)
             /\ Len(called) = Len(subs)
             /\ \A i \in 1..Len(subs) :
                   /\ called[i].fn = subs[i].error
                   /\ called[i].payload = first.payload]_vars

\* C12: in a dispatch of a registered type during which a before function
\* throws, the before function of every action subscriber that has one is
\* still called, every handler of the type is called, and the dispatch
\* returns its promise without throwing.
C12_ThrowingBeforeSubscriberIsIsolated ==
    [][(/\ last'.op = "dispatch"
        /\ last'.type \in DOMAIN store._actions
        /\ \E i \in OfKind(log', {"before"}) : ActSubDo(log'[i].fn) = "throw") =>
          LET subs == filter(store._actionSubscribers,
                             WithPhase(store._actionSubscribers, "before"))
              called == Only(log', {"before"})
              started == Only(log', {"action"})
              entry == store._actions[last'.type]
          IN /\ Len(called) = Len(subs)
             /\ \A i \in 1..Len(subs) : called[i].fn = subs[i].before
             /\ Len(started) = Len(entry)
             /\ \A i \in 1..Len(entry) : started[i].fn = entry[i].fn
             /\ thrown' = None
             /\ ret' = "promise"
             /\ Len(dispatches') = Len(dispatches) + 1]_vars

(***************************************************************************)
(* SpecSubscribers: the store of Spec with mutation subscribers that are   *)
(* added at either end of the list, added again, removed, removed again,   *)
(* and one of which throws.                                                *)
(***************************************************************************)
SubscriberFns == {"s1", "s2", "sThrow"}

NextSubscribers ==
    \/ Commit("inc", 1)
    \/ \E fn \in SubscriberFns : \E prepend \in BOOLEAN : Subscribe(fn, prepend)
    \/ \E h \in handles : Unsubscribe(h)

SpecSubscribers == Init /\ [][NextSubscribers]_vars

\* C13: when a mutation subscriber throws during the notification of a
\* commit, every subscriber that was in the list is still called and the
\* commit returns without throwing.
C13_ThrowingSubscriberIsIsolated ==
    [][(/\ last'.op = "commit"
        /\ last'.type \in DOMAIN store._mutations
        /\ \E i \in OfKind(log', {"subscriber"}) : SubDo(log'[i].fn).op = "throw") =>
          LET called == Only(log', {"subscriber"})
          IN /\ Len(called) = Len(store._subscribers)
             /\ \A i \in 1..Len(called) : called[i].fn = store._subscribers[i]
             /\ thrown' = None]_vars

\* how many entries of a list hold x
CountOf(s, x) == Cardinality({i \in 1..Len(s) : s[i] = x})

\* C14: subscribing a function that is in the mutation subscriber list
\* leaves the list as it is, so the list never holds a function twice and a
\* commit that returns calls each function of the list once; the unsubscribe
\* function removes the function's entry when there is one and leaves the
\* list as it is when there is none, as on its second call in a row.
C14_SubscribeAndUnsubscribeAreIdempotent ==
    [][/\ \A fn \in Range(store'._subscribers) : CountOf(store'._subscribers, fn) = 1
       /\ (last'.op = "subscribe" /\ last'.type \in Range(store._subscribers)) =>
            store'._subscribers = store._subscribers
       /\ (last'.op = "commit" /\ thrown' = None) =>
            \A fn \in Range(store._subscribers) :
                Cardinality({i \in OfKind(log', {"subscriber"}) : log'[i].fn = fn}) = 1
       /\ last'.op = "unsubscribe" =>
            /\ last'.type \notin Range(store'._subscribers)
            /\ last'.type \in Range(store._subscribers) =>
                 /\ Len(store'._subscribers) = Len(store._subscribers) - 1
                 /\ store'._subscribers = filter(store._subscribers,
                                                 Range(store._subscribers) \ {last'.type})
            /\ last'.type \notin Range(store._subscribers) =>
                 store'._subscribers = store._subscribers]_vars

\* s1 was subscribed with prepend while it was in the list already, behind s2
C14_Witness ==
    /\ last = Call("subscribe", "s1", <<>>, 1)
    /\ store._subscribers = <<"s2", "s1">>

\* C16: a function subscribed with options.prepend becomes the first entry
\* of the mutation subscriber list, one subscribed without it the last
\* entry, the entries that were in the list keeping their order; a commit
\* calls the subscribers in list order, the first entry first.
C16_PrependIsNotifiedFirst ==
    [][/\ (last'.op = "subscribe" /\ last'.type \notin Range(store._subscribers)) =>
            store'._subscribers = (IF last'.arg = 1
                                   THEN <<last'.type>> \o store._subscribers
                                   ELSE store._subscribers \o <<last'.type>>)
       /\ (last'.op = "commit" /\ last'.type \in DOMAIN store._mutations) =>
            LET called == Only(log', {"subscriber"})
            IN /\ Len(called) <= Len(store._subscribers)
               /\ \A i \in 1..Len(called) : called[i].fn = store._subscribers[i]
               /\ thrown' = None => Len(called) = Len(store._subscribers)
               /\ store._subscribers # <<>> => called # <<>>]_vars

\* s2 was subscribed with prepend to a list that held s1
C16_Witness ==
    /\ last = Call("subscribe", "s2", <<>>, 1)
    /\ store._subscribers = <<"s2", "s1">>
    /\ \E h \in handles : h.fn = "s1"

(***************************************************************************)
(* SpecActionSubs: the store of SpecDispatch with action subscribers given *)
(* as a function and as an object, at either end of the list, each         *)
(* possibly more than once.                                                *)
(***************************************************************************)
\* the function f1, and an object with the three phases
FnOrObject == {ActionSub(0, "f1", "", ""), ActionSub(0, "b1", "a1", "e1")}

NextActionSubs ==
    \/ \E fn \in FnOrObject : \E prepend \in BOOLEAN : SubscribeAction(fn, prepend)
    \/ Dispatch("a1", 1)
    \/ \E d \in 1..Len(dispatches) : Settle(d)

SpecActionSubs == InitDispatch /\ [][NextActionSubs]_vars

\* the entries of the action subscriber list whose before function is fn
BeforeEntries(subs, fn) == {i \in 1..Len(subs) : subs[i].before = fn}

\* C15: subscribeAction with a function that was subscribed before leaves
\* the action subscriber list as it is: the list holds one entry for the
\* function, and a dispatch calls the function once as a before subscriber.
C15_SubscribeActionDeduplicatesFunctions ==
    [][/\ Cardinality(BeforeEntries(store'._actionSubscribers, "f1")) <= 1
       /\ (last'.op = "subscribeAction" /\ last'.type = "f1"
             /\ BeforeEntries(store._actionSubscribers, "f1") # {}) =>
            store'._actionSubscribers = store._actionSubscribers
       /\ (last'.op = "dispatch" /\ BeforeEntries(store._actionSubscribers, "f1") # {}) =>
            Cardinality({i \in OfKind(log', {"before"}) : log'[i].fn = "f1"}) = 1]_vars

(***************************************************************************)
(* SpecReplace: the store of SpecDispatch, with subscribers of both kinds, *)
(* whose state is replaced by states of the same shape and by states that  *)
(* have the root object only.                                              *)
(***************************************************************************)
NextReplace ==
    \/ \E count \in Payloads : ReplaceState(count)
    \/ \E count \in Payloads : ReplaceStateRoot(count)
    \/ Subscribe("s1", FALSE)
    \/ \E fn \in ActionSubscribers : SubscribeAction(fn, FALSE)
    \/ Commit("m1", 1)

SpecReplace == InitDispatch /\ [][NextReplace]_vars

\* the state given to the last replaceState call
Replacement(before, call) ==
    [p \in (IF call.type = "root" THEN {<<>>} ELSE DOMAIN before) |-> [count |-> call.arg]]

\* C17: after replaceState(s) the state of the store is s; the call throws
\* nothing, calls no subscriber and no handler, and leaves the routing
\* tables, the getters, the module tree and both subscriber lists as they
\* were.
C17_ReplaceStateRoundTrip ==
    [][last'.op = "replaceState" =>
          /\ store'.state = Replacement(store.state, last')
          /\ thrown' = None
          /\ log' = <<>>
          /\ store' = [store EXCEPT !.state = store'.state]]_vars

\* the state was replaced by a root object without the state of module b,
\* in a store with subscribers of both kinds
C17_Witness ==
    /\ last = Call("replaceState", "root", <<>>, 2)
    /\ store.state = [p \in {<<>>} |-> [count |-> 2]]
    /\ <<"b">> \in DOMAIN store._modules
    /\ store._subscribers # <<>>
    /\ store._actionSubscribers # <<>>

(***************************************************************************)
(* SpecHot: the store of SpecModules, with subscribers of both kinds,      *)
(* whose definitions are replaced by hot updates between commits,          *)
(* dispatches and getter reads.                                            *)
(***************************************************************************)
NextHot ==
    \/ \E newOptions \in HotOptions : HotUpdate(newOptions)
    \/ \E type \in {"inc", "a/inc"} : Commit(type, 1)
    \/ Dispatch("go", 1)
    \/ \E d \in 1..Len(dispatches) : Settle(d)
    \/ \E key \in {"cnt", "a/cnt"} : Getter(key)
    \/ Subscribe("s1", FALSE)
    \/ SubscribeAction(ActionSub(0, "", "", "e1"), FALSE)

SpecHot == InitModules /\ [][NextHot]_vars

\* the type under which the entry e of a module's mutations, actions or
\* getters is routed
TypeOf(M, P, kind, e) ==
    IF kind = "actions" /\ e.root THEN e.key ELSE PrefixByFlags(M, P, 1) \o e.key

\* the definitions the module tree has for a type: raw handler and module
Definitions(M, kind, T) ==
    {<<M[P][kind][i].fn, P>> :
        <<P, i>> \in {x \in UNION {{<<Q, j>> : j \in 1..Len(M[Q][kind])} : Q \in DOMAIN M} :
                        TypeOf(M, x[1], kind, M[x[1]][kind][x[2]]) = T}}

\* the handlers of a routing table entry as raw handler and module
Handlers(entry) == {<<entry[i].fn, entry[i].path>> : i \in 1..Len(entry)}

\* C18: a hot update gives the root module the definitions of the new
\* options and leaves the state tree and both subscriber lists as they were;
\* after it the routing tables hold, for every type, the handlers of the
\* definitions the module tree now has, each once, and every getter accessor
\* is one of them; every handler a later commit or dispatch calls and every
\* getter a later read computes is a definition the module tree has at that
\* time, so no replaced definition is called.
C18_HotUpdateUsesNewDefinitionsOnly ==
    [][/\ last'.op = "hotUpdate" =>
            LET M == store'._modules
            IN /\ thrown' = None
               /\ store'.state = store.state
               /\ store'._subscribers = store._subscribers
               /\ store'._actionSubscribers = store._actionSubscribers
               /\ \E o \in HotOptions :
                     /\ M[<<>>].mutations = o.mutations
                     /\ M[<<>>].actions = o.actions
                     /\ M[<<>>].getters = o.getters
               /\ \A T \in DOMAIN store'._mutations :
                     /\ Handlers(store'._mutations[T]) = Definitions(M, "mutations", T)
                     /\ Len(store'._mutations[T]) = Cardinality(Definitions(M, "mutations", T))
               /\ \A T \in DOMAIN store'._actions :
                     /\ Handlers(store'._actions[T]) = Definitions(M, "actions", T)
                     /\ Len(store'._actions[T]) = Cardinality(Definitions(M, "actions", T))
               /\ \A T \in DOMAIN store'.getters :
                     <<store'.getters[T].fn, store'.getters[T].path>>
                        \in Definitions(M, "getters", T)
       /\ last'.op = "commit" =>
            \A i \in OfKind(log', {"handler"}) :
                <<log'[i].fn, log'[i].path>> \in Definitions(store._modules, "mutations", log'[i].type)
       /\ last'.op = "dispatch" =>
            \A i \in OfKind(log', {"action"}) :
                <<log'[i].fn, log'[i].path>> \in Definitions(store._modules, "actions", log'[i].type)
       /\ last'.op = "getters" =>
            \A i \in OfKind(log', {"getter"}) :
                <<log'[i].fn, log'[i].path>> \in Definitions(store._modules, "getters", log'[i].type)]_vars

\* the getter cnt of the root, g0 in the constructor options, is read as g5
\* after a hot update, in a store with subscribers and a state that commits
\* have changed
C18_Witness ==
    /\ last = Call("getters", "cnt", <<>>, 0)
    /\ ret = "g5(1)"
    /\ store._modules[<<>>].mutations = <<Mut("inc", "add")>>
    /\ store._mutations["inc"] = <<Wrapped("add", "", <<>>)>>
    /\ store._subscribers # <<>>
    /\ store._actionSubscribers # <<>>

(***************************************************************************)
(* SpecStrict: the store of Spec in strict mode, with a mutation whose     *)
(* handler commits and one whose handler throws.  Its state is written by  *)
(* commits, by replaceState, by the registration and the removal of        *)
(* modules, by hot updates, and by code outside the store.                 *)
(***************************************************************************)
\* the options of Spec with two more mutations of the root: outer, whose
\* handler commits inc, and bad, whose handler throws
OptionsStrict ==
    Raw(FALSE, 0, <<Mut("inc", "add"), Mut("outer", "nest"), Mut("bad", "throw")>>,
        <<>>, <<>>,
        <<Sub("b", Raw(FALSE, 1, <<Mut("inc", "dbl"), Mut("set", "set")>>, <<>>, <<>>, <<>>))>>)

RuntimeStrict == Raw(FALSE, 0, <<Mut("inc", "add")>>, <<>>, <<>>, <<>>)

HotStrict == Raw(FALSE, 0, <<Mut("inc", "dbl")>>, <<>>, <<>>, <<>>)

InitStrict ==
    /\ store = Store(OptionsStrict, TRUE)
    /\ log = <<>>
    /\ thrown = None
    /\ ret = Undefined
    /\ dispatches = <<>>
    /\ handles = {}
    /\ last = Call("new Store", "", <<>>, 0)

NextStrict ==
    \/ \E type \in {"inc", "set", "outer", "bad"} : Commit(type, 1)
    \/ ReplaceState(1)
    \/ KindAt(<<"r">>) = "absent" /\ RegisterModule(<<"r">>, RuntimeStrict, FALSE)
    \/ \E path \in {<<"r">>, <<"b">>} : UnregisterModule(path)
    \/ HotUpdate(HotStrict)
    \/ \E path \in {<<>>, <<"b">>, <<"r">>} : ExternalWrite(path, 2)
    \/ \E fn \in {"s1", "sCommit"} : Subscribe(fn, FALSE)

SpecStrict == InitStrict /\ [][NextStrict]_vars

\* the calls of the store that write to the state tree
WritingCalls == {"commit", "replaceState", "registerModule", "unregisterModule", "hotUpdate"}

\* C19: in strict mode a write to the state tree made by code outside the
\* store while the committing flag is false raises the assertion, and no
\* commit, replaceState, registerModule, unregisterModule or hotUpdate
\* raises it.
C19_StrictModeAssertsOutsideWritesOnly ==
    [][/\ (last'.op = "write" /\ store.strict /\ ~store._committing) =>
            OfKind(log', {"assert"}) # {}
       /\ last'.op \in WritingCalls => OfKind(log', {"assert"}) = {}]_vars

\* a hot update of a strict store, after a module was registered at runtime
\* and the state was written from outside
C19_Witness ==
    /\ last.op = "hotUpdate"
    /\ store.strict
    /\ ~store._committing
    /\ <<"r">> \in DOMAIN store.state
    /\ store.state[<<>>].count = 2
    /\ store._mutations["inc"][1].fn = "dbl"

(***************************************************************************)
(* SpecGetters: a store whose modules a and b, neither namespaced, both    *)
(* declare the getter cnt; the module registered at runtime at r declares  *)
(* it too, and a hot update takes it from a.                               *)
(***************************************************************************)
OptionsGetters ==
    Raw(FALSE, 0, <<>>, <<>>, <<>>,
        <<Sub("a", Raw(FALSE, 0, <<Mut("incA", "add")>>, <<>>, <<Get("cnt", "g1")>>, <<>>)),
          Sub("b", Raw(FALSE, 1, <<Mut("incB", "add")>>, <<>>, <<Get("cnt", "g2")>>, <<>>))>>)

RuntimeGetters == Raw(FALSE, 2, <<>>, <<>>, <<Get("cnt", "g4"), Get("own", "g5")>>, <<>>)

HotGetters ==
    Raw(FALSE, 0, <<>>, <<>>, <<>>,
        <<Sub("a", Raw(FALSE, 0, <<Mut("incA", "add")>>, <<>>, <<>>, <<>>))>>)

InitGetters ==
    /\ store = Store(OptionsGetters, FALSE)
    /\ log = <<>>
    /\ thrown = None
    /\ ret = Undefined
    /\ dispatches = <<>>
    /\ handles = {}
    /\ last = Call("new Store", "", <<>>, 0)

NextGetters ==
    \/ \E key \in {"cnt", "own"} : Getter(key)
    \/ \E type \in {"incA", "incB"} : Commit(type, 1)
    \/ KindAt(<<"r">>) = "absent" /\ RegisterModule(<<"r">>, RuntimeGetters, FALSE)
    \/ UnregisterModule(<<"r">>)
    \/ HotUpdate(HotGetters)
    \/ \E count \in Payloads : ReplaceState(count)

SpecGetters == InitGetters /\ [][NextGetters]_vars

\* the modules of the tree in the order in which an installation visits them
RECURSIVE InstallOrder(_, _)
RECURSIVE InstallOrderEach(_, _, _)
InstallOrder(M, P) == <<P>> \o InstallOrderEach(M, P, M[P]._children)

InstallOrderEach(M, P, keys) ==
    IF keys = <<>> THEN <<>>
    ELSE InstallOrder(M, concat(P, Head(keys))) \o InstallOrderEach(M, P, Tail(keys))

\* the getter definitions of the tree for a key, in installation order
RECURSIVE DeclaringIn(_, _, _)
DeclaringIn(M, order, key) ==
    IF order = <<>> THEN <<>>
    ELSE LET P == Head(order)
             own == {i \in 1..Len(M[P].getters) :
                        TypeOf(M, P, "getters", M[P].getters[i]) = key}
         IN (IF own = {} THEN <<>>
             ELSE <<[fn |-> M[P].getters[CHOOSE i \in own : \A j \in own : i <= j].fn,
                     path |-> P]>>)
            \o DeclaringIn(M, Tail(order), key)

\* C20: when several modules declare a getter that resolves to one key, the
\* getter table has one accessor for the key, that of the module installed
\* first, and a read of the key returns the value of that module's getter
\* on that module's state.
C20_FirstGetterOfAKeyIsKept ==
    [][thrown' = None =>
          \A key \in {"cnt", "own"} :
              LET declaring == DeclaringIn(store'._modules, InstallOrder(store'._modules, <<>>), key)
              IN /\ key \in DOMAIN store'.getters <=> declaring # <<>>
                 /\ declaring # <<>> =>
                      /\ store'.getters[key].fn = declaring[1].fn
                      /\ store'.getters[key].path = declaring[1].path
                      /\ store'._wrappedGetters[key] = store'.getters[key]
                      /\ (last'.op = "getters" /\ last'.type = key) =>
                            ret' = declaring[1].fn \o "("
                                   \o ToString(store.state[declaring[1].path].count) \o ")"]_vars

\* cnt is declared by a, b and r, and its read is the getter of a on the
\* state of a
C20_Witness ==
    /\ last = Call("getters", "cnt", <<>>, 0)
    /\ Len(DeclaringIn(store._modules, InstallOrder(store._modules, <<>>), "cnt")) = 3
    /\ store.state[<<"a">>].count = 1
    /\ ret = "g1(1)"

(***************************************************************************)
(* SpecRegister: modules registered at runtime at r and below the          *)
(* namespaced module a, with and without options.preserveState; a state    *)
(* given to replaceState brings the state objects of modules that are      *)
(* registered afterwards.  Hot updates change the namespaces, and the      *)
(* getters of the local contexts are read in between.                      *)
(***************************************************************************)
\* a config whose namespaced child a, registered below the plain r, has
\* the namespace of the module a of the constructor options
RuntimeSameNamespace ==
    Raw(FALSE, 0, <<>>, <<>>, <<>>,
        <<Sub("a", Raw(TRUE, 0, <<Mut("inc", "add")>>, <<Act("go", "act7", FALSE)>>,
                       <<Get("own", "g7")>>, <<>>))>>)

NextRegister ==
    \/ \E path \in {<<"r">>, <<"a", "r">>}, raw \in RuntimeConfigs, preserveState \in BOOLEAN :
          KindAt(path) = "absent" /\ RegisterModule(path, raw, preserveState)
    \/ \E path \in {<<"r">>, <<"a", "r">>} : UnregisterModule(path)
    \/ \E path \in {<<"r">>, <<"a", "r">>} :
          ReplaceStateWith({path, concat(path, "d")}, 1)
    \/ \E type \in {"d/inc", "a/r/inc"} : Commit(type, 2)
    \/ KindAt(<<"r">>) = "absent" /\ RegisterModule(<<"r">>, RuntimeSameNamespace, FALSE)
    \/ \E newOptions \in HotOptions : HotUpdate(newOptions)
    \/ \E namespace \in {"a/", "r/", "a/r/", "a/c/"} : LocalGetters(namespace)

SpecRegister == InitModules /\ [][NextRegister]_vars

\* the mutations and actions of the module at P are in the tables of the
\* store s under their namespaced types
HandlersEntered(s, P) ==
    LET module == s._modules[P]
        ns == PrefixByFlags(s._modules, P, 1)
    IN /\ \A i \in 1..Len(module.mutations) :
            LET type == ns \o module.mutations[i].key
            IN /\ type \in DOMAIN s._mutations
               /\ Wrapped(module.mutations[i].fn, ns, P) \in Range(s._mutations[type])
       /\ \A i \in 1..Len(module.actions) :
            LET type == IF module.actions[i].root THEN module.actions[i].key
                        ELSE ns \o module.actions[i].key
            IN /\ type \in DOMAIN s._actions
               /\ Wrapped(module.actions[i].fn, ns, P) \in Range(s._actions[type])

\* the getters of the module at P that answer under their namespaced keys
GettersEntered(s, P) ==
    LET module == s._modules[P]
        ns == PrefixByFlags(s._modules, P, 1)
    IN {i \in 1..Len(module.getters) :
            /\ ns \o module.getters[i].key \in DOMAIN s.getters
            /\ s.getters[ns \o module.getters[i].key] = Wrapped(module.getters[i].fn, ns, P)}

\* the state objects of a tree outside the subtree at P
StateOutside(state, P) == [q \in {p \in DOMAIN state : ~IsPrefix(P, p)} |-> state[q]]

EntriesBelow(table, P) ==
    {<<type, i>> \in UNION {{type} \X (1..Len(table[type])) : type \in DOMAIN table} :
        IsPrefix(P, table[type][i].path)}

\* every mutation and action of the module at q is in its table exactly once
HandlersEnteredOnce(s, q) ==
    LET module == s._modules[q]
        ns == PrefixByFlags(s._modules, q, 1)
    IN /\ HandlersEntered(s, q)
       /\ \A i \in 1..Len(module.mutations) :
            CountOf(s._mutations[ns \o module.mutations[i].key],
                    Wrapped(module.mutations[i].fn, ns, q)) = 1
       /\ \A i \in 1..Len(module.actions) :
            CountOf(s._actions[IF module.actions[i].root THEN module.actions[i].key
                               ELSE ns \o module.actions[i].key],
                    Wrapped(module.actions[i].fn, ns, q)) = 1

\* unregisterModule(P) of a runtime module has deleted the state at P and
\* left no handler of the modules at or below P in the tables
RemovedModuleIsGone(s, before, P) ==
    /\ \A q \in DOMAIN s.state : ~IsPrefix(P, q)
    /\ StateOutside(s.state, P) = StateOutside(before.state, P)
    /\ EntriesBelow(s._mutations, P) = {}
    /\ EntriesBelow(s._actions, P) = {}
    /\ \A key \in DOMAIN s._wrappedGetters : ~IsPrefix(P, s._wrappedGetters[key].path)
    /\ \A key \in DOMAIN s.getters : ~IsPrefix(P, s.getters[key].path)

\* C22 (as stated): after unregisterModule(P) of a module registered at
\* runtime the key of P is deleted from the state of its parent, no
\* mutation, action or getter handler of the module or of its descendants
\* is left in the routing tables, and every handler of every remaining
\* module, getters included, is in the tables exactly once.
C22_UnregisterLeavesEveryRemainingHandler ==
    [][(last'.op = "unregisterModule" /\ last'.type = "runtime" /\ thrown' = None) =>
         /\ RemovedModuleIsGone(store', store, last'.path)
         /\ \A q \in DOMAIN store'._modules :
               /\ HandlersEnteredOnce(store', q)
               /\ GettersEntered(store', q) = 1..Len(store'._modules[q].getters)]_vars

\* C22 (amended): the same for the state and for the mutations and
\* actions; every getter key of a remaining module has one accessor, which
\* is the getter of a remaining module that declares the key.
C22_UnregisterRemovesRoutes ==
    [][(last'.op = "unregisterModule" /\ last'.type = "runtime" /\ thrown' = None) =>
         /\ RemovedModuleIsGone(store', store, last'.path)
         /\ \A q \in DOMAIN store'._modules :
               /\ HandlersEnteredOnce(store', q)
               /\ \A i \in 1..Len(store'._modules[q].getters) :
                     LET key == PrefixByFlags(store'._modules, q, 1)
                                   \o store'._modules[q].getters[i].key
                     IN /\ key \in DOMAIN store'.getters
                        /\ store'._wrappedGetters[key] = store'.getters[key]
                        /\ \E q2 \in DOMAIN store'._modules :
                              \E j \in GettersEntered(store', q2) :
                                 PrefixByFlags(store'._modules, q2, 1)
                                    \o store'._modules[q2].getters[j].key = key]_vars

\* the namespaced d was unregistered from below r, which stays with the
\* mutation it shares with the root
C22_Witness ==
    /\ last = Call("unregisterModule", "runtime", <<"r", "d">>, 0)
    /\ thrown = None
    /\ <<"r">> \in DOMAIN store._modules
    /\ <<"r", "d">> \notin DOMAIN store.state
    /\ "d/inc" \notin DOMAIN store._mutations
    /\ Len(store._mutations["inc"]) = 2

\* C23: get(path) returns undefined, without throwing, whenever a segment
\* of the path is missing from the tree, the last one or an earlier one,
\* and hasModule(path) then returns false and changes nothing.
C23_MissingSegmentIsUndefined ==
    [][(last'.op = "hasModule" /\ last'.path \notin DOMAIN store._modules) =>
         /\ get(store._modules, last'.path).tag = Undefined
         /\ thrown' = None
         /\ ret' = "false"
         /\ store' = store]_vars

(***************************************************************************)
(* SpecLocal: actions that commit and dispatch through the local context   *)
(* of their module.  The type m has a handler in the root and one in the   *)
(* module b, which has no namespace; the module n is namespaced.  first    *)
(* (root, p) commits before and after an await; second (n, q) commits      *)
(* after an await, locally and with root: true; fwd (n) commits and        *)
(* dispatches locally and with root: true; plain (b, viaB) commits and     *)
(* dispatches with its module's empty namespace.                           *)
(***************************************************************************)
OptionsLocal ==
    Raw(FALSE, 0, <<Mut("m", "set")>>, <<Act("p", "first", FALSE)>>, <<>>,
        <<Sub("b", Raw(FALSE, 0, <<Mut("m", "add")>>, <<Act("viaB", "plain", FALSE)>>,
                       <<>>, <<>>)),
          Sub("n", Raw(TRUE, 0, <<Mut("m", "add")>>,
                       <<Act("q", "second", FALSE), Act("fwd", "fwd", FALSE)>>,
                       <<>>, <<>>))>>)

InitLocal ==
    /\ store = Store(OptionsLocal, FALSE)
    /\ log = <<>>
    /\ thrown = None
    /\ ret = Undefined
    /\ dispatches = <<>>
    /\ handles = {}
    /\ last = Call("new Store", "", <<>>, 0)

NextLocal ==
    \/ \E type \in {"p", "viaB", "n/q", "n/fwd"} : Dispatch(type, 1)
    \/ \E d \in 1..Len(dispatches) : \E i \in 1..Len(dispatches[d].runs) : Resume(d, i)
    \/ \E d \in 1..Len(dispatches) : Settle(d)
    \/ Commit("m", 2)

SpecLocal == InitLocal /\ [][NextLocal]_vars

\* the global type of the commit or dispatch a handler made, as the trace
\* has it: the namespace of the handler's module before the type, unless
\* the call had root: true
GlobalType(M, e) ==
    IF e.ev \in {"commitRoot", "dispatchRoot"} THEN e.type
    ELSE PrefixByFlags(M, e.path, 1) \o e.type

\* the commits of a step in the order of the calls: the call of the facade,
\* or the calls the action handlers made
CommitCalls(M, l, call) ==
    IF call.op = "commit" THEN <<[type |-> call.type, payload |-> call.arg]>>
    ELSE LET cs == Only(l, {"commit", "commitRoot"})
         IN [i \in 1..Len(cs) |-> [type |-> GlobalType(M, cs[i]), payload |-> cs[i].payload]]

\* the calls of the handlers of the commits, one commit after the other
RECURSIVE HandlerCalls(_, _)
HandlerCalls(table, commits) ==
    IF commits = <<>> THEN <<>>
    ELSE LET c == Head(commits)
             entry == table[c.type]
         IN [i \in 1..Len(entry) |->
                Ev("handler", c.type, entry[i].fn, entry[i].path, c.payload, EmptyObj)]
            \o HandlerCalls(table, Tail(commits))

\* the state after the handler calls, applied one after the other
RECURSIVE ApplyHandlers(_, _)
ApplyHandlers(state, calls) ==
    IF calls = <<>> THEN state
    ELSE ApplyHandlers([state EXCEPT ![Head(calls).path].count =
                            MutFn(Head(calls).fn, @, Head(calls).payload)],
                       Tail(calls))

\* C24: with several actions in flight, the handlers called in a step are
\* those of its commits, commit after commit in the order of the calls and
\* each commit's handlers in the order of the table, and the step leaves
\* the state that these handler calls give one after the other.
C24_CommitsAreSequential ==
    [][thrown' = None =>
         LET calls == HandlerCalls(store._mutations,
                                   CommitCalls(store._modules, log', last'))
         IN /\ Only(log', {"handler"}) = calls
            /\ store'.state = ApplyHandlers(store.state, calls)]_vars

\* p was dispatched and committed, n/q was dispatched after it and
\* committed at its continuation, and then p committed at its continuation
C24_Witness ==
    /\ Len(dispatches) = 2
    /\ dispatches[1].type = "p"
    /\ dispatches[2].type = "n/q"
    /\ Cardinality(OfKind(dispatches[2].hist, {"handler"})) = 3
    /\ last = Call("resume", "p", <<>>, 1)
    /\ Cardinality(OfKind(log, {"handler"})) = 2
    /\ store.state[<<>>].count = 2 % CountMod

\* C26: a commit or dispatch made through a module's local context goes to
\* the global commit or dispatch with the module's namespace before the
\* type, with the bare type when the call has root: true or the namespace
\* is empty, and the handlers it calls are those the global routing tables
\* hold for that type.
C26_LocalCallsRouteThroughGlobalTables ==
    [][thrown' = None =>
         /\ \A i \in OfKind(log', {"commit", "commitRoot"}) :
               LET global == GlobalType(store._modules, log'[i])
                   entry == store._mutations[global]
               IN /\ global \in DOMAIN store._mutations
                  /\ i + Len(entry) <= Len(log')
                  /\ SubSeq(log', i + 1, i + Len(entry)) =
                        HandlerCalls(store._mutations,
                                     <<[type |-> global, payload |-> log'[i].payload]>>)
                  /\ i + Len(entry) < Len(log') => log'[i + Len(entry) + 1].ev # "handler"
         /\ \A i \in OfKind(log', {"dispatch", "dispatchRoot"}) :
               LET global == GlobalType(store._modules, log'[i])
               IN /\ global \in DOMAIN store._actions
                  /\ i < Len(log')
                  /\ log'[i + 1] = Ev("action", global, store._actions[global][1].fn,
                                      store._actions[global][1].path, log'[i].payload,
                                      EmptyObj)
         /\ \A i \in OfKind(log', {"action"}) :
               \E j \in 1..Len(store._actions[log'[i].type]) :
                   /\ store._actions[log'[i].type][j].fn = log'[i].fn
                   /\ store._actions[log'[i].type][j].path = log'[i].path]_vars

\* fwd, of the namespaced n, committed m and dispatched q locally, which
\* went to n/m and n/q, and with root: true, which went to m and p
C26_Witness ==
    /\ last = Call("dispatch", "n/fwd", <<>>, 1)
    /\ thrown = None
    /\ {log[i].type : i \in OfKind(log, {"handler"})} = {"n/m", "m"}
    /\ {log[i].type : i \in OfKind(log, {"action"})} = {"n/fwd", "n/q", "p"}
    /\ Len(dispatches) = 3

\* C25: the committing flag is true during every write the store makes to
\* the state, also in the rest of a handler that made a nested commit, and
\* it is false again once a commit, replaceState, registerModule,
\* unregisterModule or hotUpdate has returned.
C25_CommittingFlagIsScoped ==
    [][last'.op \in WritingCalls =>
         /\ OfKind(log', {"assert"}) = {}
         /\ thrown' = None => ~store'._committing]_vars

\* the global getter keys that start with N, under the key without N
Projection(getters, N) ==
    LET under == {key \in DOMAIN getters :
                    Len(key) >= Len(N) /\ (N = "" \/ SubSeq(key, 1, Len(N)) = N)}
    IN [local \in {slice(key, Len(N), Len(key)) : key \in under} |-> N \o local]

\* C27: after any sequence of registerModule, unregisterModule and
\* hotUpdate, the local getters returned for a namespace N are the global
\* getters of the moment whose key starts with N, under the key without N,
\* and no projection of an earlier table is in the cache.
C27_LocalGettersFollowTheTables ==
    [][/\ last'.op = "local.getters" =>
            /\ makeLocalGetters(World(store, <<>>, None), last'.type).value
                   = Projection(store.getters, last'.type)
            /\ store'._makeLocalGettersCache[last'.type] = Projection(store'.getters, last'.type)
            /\ \A local \in DOMAIN store'._makeLocalGettersCache[last'.type] :
                  store'._makeLocalGettersCache[last'.type][local] \in DOMAIN store'.getters
       /\ \A N \in DOMAIN store'._makeLocalGettersCache :
            store'._makeLocalGettersCache[N] = Projection(store'.getters, N)]_vars

\* the local getters of a and of a/r are read with the namespaced r
\* registered below a
C27_Witness ==
    /\ last = Call("local.getters", "a/", <<>>, 0)
    /\ DOMAIN store._makeLocalGettersCache = {"a/", "a/r/"}
    /\ DOMAIN store._makeLocalGettersCache["a/"] = {"cnt", "sum", "r/cnt"}
    /\ DOMAIN store._makeLocalGettersCache["a/r/"] = {"cnt"}

\* C28: right after replaceState(s) a commit gives each handler of the
\* entry the state of its module in s, and a read of a getter is computed
\* from the state of its module in s; handlers and getters are those the
\* tables had before the replacement.
C28_BindingsActOnTheNewState ==
    [][last.op = "replaceState" =>
         /\ (last'.op = "commit" /\ thrown' = None) =>
               LET calls == HandlerCalls(store._mutations,
                                         <<[type |-> last'.type, payload |-> last'.arg]>>)
               IN /\ Only(log', {"handler"}) = calls
                  /\ \A p \in DOMAIN store'.state :
                        store'.state[p].count =
                            IF \E i \in 1..Len(calls) : calls[i].path = p
                            THEN MutFn(calls[CHOOSE i \in 1..Len(calls) : calls[i].path = p].fn,
                                       last.arg, last'.arg)
                            ELSE last.arg
         /\ (last'.op = "getters" /\ last'.type \in DOMAIN store.getters) =>
               ret' = store.getters[last'.type].fn \o "(" \o ToString(last.arg) \o ")"]_vars

\* the state was replaced by one with the count 2 everywhere, and incA was
\* committed on it
C28_Witness ==
    /\ last = Call("commit", "incA", <<>>, 1)
    /\ store.state[<<>>].count = 2
    /\ store.state[<<"b">>].count = 2
    /\ store.state[<<"a">>].count = (2 + 1) % CountMod

\* the module at P and the modules below it that the config lists at the
\* paths of existing modules have the config's definitions
RECURSIVE ListedAreUpdated(_, _, _)
ListedAreUpdated(M, P, raw) ==
    /\ M[P].mutations = raw.mutations
    /\ M[P].actions = raw.actions
    /\ M[P].getters = raw.getters
    /\ \A i \in 1..Len(raw.modules) :
          concat(P, raw.modules[i].key) \in DOMAIN M =>
              ListedAreUpdated(M, concat(P, raw.modules[i].key), raw.modules[i].raw)

\* C29: a hot update whose config lists a child key without a module adds
\* no module, and every existing module the config lists, also one listed
\* after the unknown key, has the config's definitions afterwards.
C29_UnknownChildAbortsItsBranchOnly ==
    [][last'.op = "hotUpdate" =>
         /\ DOMAIN store'._modules = DOMAIN store._modules
         /\ \A newOptions \in HotOptions :
               store' = hotUpdate(World(store, <<>>, None), newOptions).s =>
                   ListedAreUpdated(store'._modules, <<>>, newOptions)]_vars

\* the namespaced modules of the tree whose namespace is N
WithNamespace(M, N) ==
    {P \in DOMAIN M : M[P].namespaced /\ PrefixByFlags(M, P, 1) = N}

\* the last module of an installation order that is one of a set
LastOf(order, paths) ==
    order[CHOOSE i \in 1..Len(order) :
             /\ order[i] \in paths
             /\ \A j \in (i + 1)..Len(order) : order[j] \notin paths]

\* C30: when a registerModule, unregisterModule or hotUpdate installs a
\* tree in which two namespaced modules have one namespace, the call
\* throws nothing, the mutations and actions of both modules are in the
\* routing tables, and the namespace map holds, for the namespace, the
\* module installed last: the last one of the installed modules in
\* installation order, or the one it held if none of them has it.
C30_SameNamespaceLastInstalledWins ==
    [][last'.op \in {"registerModule", "unregisterModule", "hotUpdate"} =>
         \A N \in {"a/", "a/c/", "r/", "d/"} :
             LET M == store'._modules
                 same == WithNamespace(M, N)
                 top == IF last'.op = "registerModule" THEN last'.path ELSE <<>>
                 installed == {P \in same : IsPrefix(top, P)}
             IN Cardinality(same) > 1 =>
                  /\ thrown' = None
                  /\ \A P \in same : HandlersEntered(store', P)
                  /\ N \in DOMAIN store'._modulesNamespaceMap
                  /\ store'._modulesNamespaceMap[N] =
                        IF installed # {} THEN LastOf(InstallOrder(M, top), installed)
                        ELSE store._modulesNamespaceMap[N]]_vars

\* the namespaced a below r was registered in a store that has the
\* namespaced module a
C30_Witness ==
    /\ last = Call("registerModule", "", <<"r">>, 0)
    /\ thrown = None
    /\ WithNamespace(store._modules, "a/") = {<<"a">>, <<"r", "a">>}
    /\ store._modulesNamespaceMap["a/"] = <<"r", "a">>
    /\ Len(store._mutations["a/inc"]) = 3
    /\ Len(store._actions["a/go"]) = 2
    /\ \E i \in OfKind(log, {"console.error"}) : log[i].fn = "duplicate namespace"

(***************************************************************************)
(* The runtime flag of the modules of a config.                            *)
(***************************************************************************)
\* C31: every module the constructor options declare, at any depth, is in
\* the module tree with runtime = FALSE, whatever was unregistered; every
\* other module of the tree, at any depth of a config given to
\* registerModule, has runtime = TRUE; and right after unregisterModule(P)
\* of a module registered at runtime, P and the modules below it are gone.
C31_RuntimeFlagReachesNestedModules ==
    /\ \A P \in PathsOf(<<>>, OptionsModules) :
            P \in DOMAIN store._modules /\ ~store._modules[P].runtime
    /\ \A P \in DOMAIN store._modules \ PathsOf(<<>>, OptionsModules) :
            store._modules[P].runtime
    /\ (last.op = "unregisterModule" /\ last.type = "runtime" /\ thrown = None) =>
            \A P \in DOMAIN store._modules : ~IsPrefix(last.path, P)

\* d, nested in the config registered at r, was removed on its own after
\* an attempt to remove c, nested in the options
C31_Witness ==
    /\ last.op = "unregisterModule"
    /\ last.type = "runtime"
    /\ last.path = <<"r", "d">>
    /\ <<"r">> \in DOMAIN store._modules
    /\ <<"r", "d">> \notin DOMAIN store._modules
    /\ <<"a", "c">> \in DOMAIN store._modules
    /\ <<"a", "c">> \notin DOMAIN store.state

(***************************************************************************)
(* unregisterModule of a path without a module.                            *)
(***************************************************************************)
\* C32: unregisterModule(path) for a path at which no module is registered
\* changes neither the module tree nor the state tree, whatever the state
\* of the parent module holds under the last key of the path.
C32_UnregisterAbsentIsNoOp ==
    [][(last'.op = "unregisterModule" /\ last'.type = "absent") =>
         /\ store'._modules = store._modules
         /\ store'.state = store.state]_vars

(***************************************************************************)
(* The logger plugin.                                                      *)
(***************************************************************************)
\* SpecLogger: the store of Spec, on which the logger is installed at any
\* time, before or after other subscribers
NextLogger ==
    \/ \E type \in CommitTypes, payload \in Payloads : Commit(type, payload)
    \/ \E fn \in {"s1", "uSelf"}, prepend \in BOOLEAN : Subscribe(fn, prepend)
    \/ \E h \in handles : Unsubscribe(h)
    \/ InstallLogger

SpecLogger == Init /\ [][NextLogger]_vars

\* the notifications of the logger's subscriber in a trace
LoggerNotes(l) == {i \in 1..Len(l) : l[i].ev = "subscriber" /\ l[i].fn = "logger"}

\* C33: the logger's copies are made of objects of their own.  The copy
\* kept at the installation and at every mutation notification, accepted by
\* the filter or not, shows the state as it was then; a step without a
\* notification leaves what the kept copy shows as it was; and at a
\* notification the filter and, if it accepts, the "prev state" line get what
\* the kept copy showed before the step, that is the state copied at the
\* previous notification (at the installation for the first one).
C33_LoggerPrevStateIsThePreviousCopy ==
    [][LET before == Seen(store.prevState, store.state)
           after == Seen(store'.prevState, store'.state)
           notes == LoggerNotes(log')
       IN /\ \A p \in DOMAIN store'.prevState : store'.prevState[p].owner = "copy"
          /\ last'.op = "plugin" => after = store.state
          /\ (last'.op # "plugin" /\ notes = {}) => after = before
          /\ \A i \in notes :
                /\ after = log'[i].state
                /\ log'[i + 1] = Ev("filter", log'[i].type, "stateBefore", <<>>,
                                    log'[i].payload, before)
                /\ log'[i + 2] = Ev("filter", log'[i].type, "stateAfter", <<>>,
                                    log'[i].payload, log'[i].state)
                /\ log'[i].payload # 2 =>
                      /\ Len(log') >= i + 5
                      /\ log'[i + 3] = Ev("logger.log", log'[i].type, "prev state", <<>>,
                                          log'[i].payload, before)
                      /\ log'[i + 5] = Ev("logger.log", log'[i].type, "next state", <<>>,
                                          log'[i].payload, log'[i].state)]_vars

\* a mutation was logged with a prev state that differs from the state
\* after it, in the root and in b; the logger now keeps the new state
C33_Witness ==
    /\ last.op = "commit"
    /\ \E i \in 1..Len(log) :
          /\ log[i].ev = "logger.log"
          /\ log[i].fn = "prev state"
          /\ log[i].state[<<>>] # store.state[<<>>]
          /\ log[i].state[<<"b">>] # store.state[<<"b">>]
          /\ log[i].state[<<"b">>].count = 2
    /\ Seen(store.prevState, store.state) = store.state

(***************************************************************************)
(* The routing tables against a fresh installation of the module tree.     *)
(***************************************************************************)
\* SpecAgain: the store of SpecModules, with registerModule called also at
\* the path of a module that is registered already
NextAgain ==
    \/ \E raw \in RuntimeConfigs :
          /\ \A type \in DOMAIN store._mutations : Len(store._mutations[type]) < MaxInstalls
          /\ RegisterModule(<<"r">>, raw, FALSE)
    \/ UnregisterModule(<<"r">>)
    \/ \E newOptions \in HotOptions : HotUpdate(newOptions)
    \/ \E type \in {"inc", "d/inc", "r/inc"} : Commit(type, 1)

SpecAgain == InitModules /\ [][NextAgain]_vars

\* the store with the routing tables a fresh installation of its module
\* tree produces
FreshTables(s) == resetStore(World(s, <<>>, None), FALSE).s

\* the two tables have the same types and, under every type, the same
\* handlers, each of them once
SameHandlers(table, fresh) ==
    /\ DOMAIN table = DOMAIN fresh
    /\ \A type \in DOMAIN table :
          /\ Range(table[type]) = Range(fresh[type])
          /\ Len(table[type]) = Len(fresh[type])
          /\ Cardinality(Range(table[type])) = Len(table[type])

\* C34: once registerModule, unregisterModule or hotUpdate has returned, the
\* mutation, action and getter tables hold exactly the handlers that a
\* fresh installation of the module tree as it is now produces, each handler
\* once; so none of a module that is no longer in the tree.
C34_TablesAreThoseOfAFreshInstallation ==
    (last.op \in {"registerModule", "unregisterModule", "hotUpdate"} /\ thrown = None) =>
        /\ SameHandlers(store._mutations, FreshTables(store)._mutations)
        /\ SameHandlers(store._actions, FreshTables(store)._actions)
        /\ store._wrappedGetters = FreshTables(store)._wrappedGetters
        /\ store.getters = FreshTables(store).getters

(***************************************************************************)
(* The order of the handlers of a type across a reset.                     *)
(***************************************************************************)
\* the modules that have a handler in a table entry
ModulesOf(entry) == {entry[i].path : i \in 1..Len(entry)}

\* a handler of the module at p is called before one of the module at q
CalledBefore(entry, p, q) ==
    \E i, j \in 1..Len(entry) : i < j /\ entry[i].path = p /\ entry[j].path = q

\* the modules with handlers under a type of both tables are called in the
\* same relative order by both
SameOrder(before, after) ==
    \A type \in DOMAIN before \cap DOMAIN after :
        \A p, q \in ModulesOf(before[type]) \cap ModulesOf(after[type]) :
            CalledBefore(before[type], p, q) <=> CalledBefore(after[type], p, q)

\* C35: an unregisterModule or a hotUpdate leaves, under every mutation and
\* action type, the handlers of the modules that have one before and after
\* the call in the same relative order.
C35_ResetKeepsTheOrderOfHandlers ==
    [][(last'.op \in {"unregisterModule", "hotUpdate"} /\ thrown' = None) =>
         /\ SameOrder(store._mutations, store'._mutations)
         /\ SameOrder(store._actions, store'._actions)]_vars

(***************************************************************************)
(* The notifications of nested commits.                                    *)
(***************************************************************************)
\* the state after the handler calls of a trace.  A handler that commits
\* before it writes (MutDo) writes when its commit has returned, which is
\* at the next event of the type the handler was called for.
RECURSIVE Replay(_, _, _)
Replay(state, pending, l) ==
    IF pending # <<>> /\ l # <<>> /\ Head(l).type = Last(pending).type
    THEN Replay([state EXCEPT ![Last(pending).path].count =
                    MutFn(MutDo(Last(pending).fn).then, @, Last(pending).payload)],
                Front(pending), l)
    ELSE IF l = <<>> THEN state
    ELSE IF Head(l).ev # "handler" THEN Replay(state, pending, Tail(l))
    ELSE IF MutDo(Head(l).fn).op = "commit" THEN Replay(state, Append(pending, Head(l)), Tail(l))
    ELSE Replay([state EXCEPT ![Head(l).path].count =
                    MutFn(Head(l).fn, @, Head(l).payload)],
                pending, Tail(l))

\* the first notification of a mutation type in a trace: a commit notifies
\* as soon as its handlers have returned, so the mutations of a step are
\* applied in the order of their first notifications (a step commits a type
\* at most once)
FirstNote(l, type) ==
    CHOOSE i \in OfKind(l, {"subscriber"}) :
        /\ l[i].type = type
        /\ \A j \in OfKind(l, {"subscriber"}) : l[j].type = type => i <= j

\* C36: in a commit that does not throw, nested commits of handlers and of
\* subscribers included, every notification passes the state as it was
\* right after the handlers of its mutation had run, and every subscriber
\* is notified of the mutations in the order in which they were applied.
C36_NotificationsFollowTheMutations ==
    [][(last'.op = "commit" /\ thrown' = None) =>
         \A i \in OfKind(log', {"subscriber"}) :
             /\ log'[i].state =
                   Replay(store.state, <<>>, SubSeq(log', 1, FirstNote(log', log'[i].type)))
             /\ \A j \in OfKind(log', {"subscriber"}) :
                   (i < j /\ log'[i].fn = log'[j].fn) =>
                       FirstNote(log', log'[i].type) <= FirstNote(log', log'[j].type)]_vars

(***************************************************************************)
(* The committing flag after a handler that throws.                        *)
(***************************************************************************)
\* C37: a commit that ends with an error thrown by a mutation handler
\* leaves the committing flag as it was before the commit, and in strict
\* mode every write to the state tree by code outside the store raises the
\* assertion, also after such a commit.
C37_ThrowingHandlerRestoresTheFlag ==
    [][/\ (last'.op = "commit" /\ thrown' # None) =>
            store'._committing = store._committing
       /\ (last'.op = "write" /\ store.strict) => OfKind(log', {"assert"}) # {}]_vars

(***************************************************************************)
(* An action handler that throws instead of rejecting.                     *)
(***************************************************************************)
\* the handlers of an entry that are plain functions and throw
Throwing(entry) ==
    {i \in 1..Len(entry) : ~IsAsync(entry[i].fn) /\
        \E j \in 1..Len(ActScript(entry[i].fn)) : ActScript(entry[i].fn)[j].op = "throw"}

\* C38: a dispatch of a type one of whose handlers throws synchronously
\* throws nothing and returns a promise whose result is rejected; when that
\* promise settles it is rejected and the error function of every action
\* subscriber that has one is called.
C38_SynchronousThrowBecomesARejection ==
    [][/\ (last'.op = "dispatch" /\ last'.type \in DOMAIN store._actions
              /\ Throwing(store._actions[last'.type]) # {}) =>
            /\ thrown' = None
            /\ ret' = "promise"
            /\ Len(dispatches') = Len(dispatches) + 1
            /\ ResultOf(dispatches'[Len(dispatches')]).status = "rejected"
       /\ (last'.op = "settle" /\ Throwing(store._actions[last'.type]) # {}) =>
            /\ dispatches'[last'.arg].outcome.status = "rejected"
            /\ Len(Only(log', {"error"})) =
                  Len(filter(store._actionSubscribers,
                             WithPhase(store._actionSubscribers, "error")))]_vars


(***************************************************************************)
(* An unsubscribe function called after its function was subscribed again. *)
(***************************************************************************)
\* C39: an unsubscribe function whose registration is gone (its function is
\* not in the subscriber list) removes nothing when it is called after the
\* next step either, also when that step subscribes its function again: the
\* call leaves the new registration in the list.
C39_UnsubscribeRemovesItsOwnRegistrationOnly ==
    [][\A h \in handles :
         (h.list = "_subscribers" /\ h.fn \notin Range(store._subscribers)) =>
             unsubscribe(h.fn, store'._subscribers) = store'._subscribers]_vars


(***************************************************************************)
(* SpecLate: the store of SpecModules with a module registered at r and    *)
(* unregistered again while its actions are in flight.  late commits inc   *)
(* through the local context after an await, lateRoot commits it with      *)
(* root: true; the module at r is namespaced (go and up) or not (go,       *)
(* which then shares its type with the action of the root).                *)
(***************************************************************************)
LateConfigs ==
    {Raw(TRUE, 0, <<Mut("inc", "set")>>,
         <<Act("go", "late", FALSE), Act("up", "lateRoot", FALSE)>>, <<>>, <<>>),
     Raw(FALSE, 0, <<Mut("inc", "set")>>, <<Act("go", "late", FALSE)>>, <<>>, <<>>)}

NextLate ==
    \/ \E raw \in LateConfigs :
          KindAt(<<"r">>) = "absent" /\ RegisterModule(<<"r">>, raw, FALSE)
    \/ UnregisterModule(<<"r">>)
    \/ \E type \in {"go", "r/go", "r/up"} : Dispatch(type, 1)
    \/ \E d \in 1..Len(dispatches) : \E i \in 1..Len(dispatches[d].runs) : Resume(d, i)
    \/ \E d \in 1..Len(dispatches) : Settle(d)

SpecLate == InitModules /\ [][NextLate]_vars

\* the runs of the dispatch d that the step continued
Resumed(d) ==
    {i \in 1..Len(dispatches[d].runs) : dispatches'[d].runs[i] # dispatches[d].runs[i]}

\* the handlers of the entry of a type are called, in order, right after
\* the event k of the trace
EntryRunsAfter(l, k, s, type, payload) ==
    type \in DOMAIN s._mutations =>
        /\ Len(l) >= k + Len(s._mutations[type])
        /\ \A j \in 1..Len(s._mutations[type]) :
              /\ l[k + j].ev = "handler"
              /\ l[k + j].type = type
              /\ l[k + j].fn = s._mutations[type][j].fn
              /\ l[k + j].path = s._mutations[type][j].path
              /\ l[k + j].payload = payload

====
